---- MODULE Spec2Model ----
(***************************************************************************)
(* Ticket watchers of QianQiuZy/ticket_to_qq.                              *)
(*                                                                         *)
(*   ticket.py     four pollers (cpp, bili, xm, qg), each a periodic job   *)
(*                 with a job lock, a request counter and a client that    *)
(*                 is rebuilt every REBUILD_THRESHOLD requests.            *)
(*   ticket-re.py  one poller ("flat") of a flat API covering the four     *)
(*                 platforms, with throttle state per group key.           *)
(*                                                                         *)
(* Time is counted in tenths of a second (3.0 s = 30, 9.0 s = 90,          *)
(* 0.1 s = 1).  Status strings of the source are written in ASCII:         *)
(*   "not_open" = 未开售, "buyable" = 可购买, "sold_out" = 已售罄,          *)
(*   "presale" = 预售中, "stopped" = 已停售, "in_stock" = 有货.              *)
(* A coroutine runs without interruption between two awaits, so one       *)
(* action is the code from one await to the next.                          *)
(***************************************************************************)
EXTENDS Integers, Sequences, FiniteSets, TLC

\* ------------------------------------------------------------ constants
SEND_INTERVAL_CHANGE_SEC == 30
CONT_AVAIL_PUSH_MIN_INTERVAL_SEC == 90
\* the literal 0.1 of "(now - last_send) >= 0.1"
MIN_SEND_GAP == 1
REBUILD_THRESHOLD == 500
\* max_instances=2 of every scheduler.add_job
MAX_INSTANCES == 2
CPP_EVENT_ID == 5020
\* BILI_PROJECTS (the project_id of each entry), XM_GOODS_IDS, QG_GOODS_IDS:
\* lists maintained by hand.  XM_GOODS_IDS and QG_GOODS_IDS are as shipped.
\* BILI_PROJECTS ships with the one project 108406 and "may hold several
\* projects": a second project, 108407, is configured here so that a cycle
\* has two fetches to gather.
BILI_PROJECTS == <<108406, 108407>>
XM_GOODS_IDS == <<256987, 256988>>
QG_GOODS_IDS == <<10223>>
\* the flat API has one endpoint
API_TICKET == 1

\* ------------------------------------------------------------ bounds
\* time.time() when the process starts
StartClock == 100
\* requests a poller of ticket.py makes after a start or a rebuild, and on
\* either side of REBUILD_THRESHOLD, within a behaviour
MaxReq == 4
\* GETs the flat poller makes within a behaviour
MaxFlatReq == 2

Sources == {"cpp", "bili", "xm", "qg"}
Pollers == Sources \cup {"flat"}
Instances == 1..MAX_INSTANCES
\* group ids that can subscribe, bots that can be connected
Groups == {1}
BotIds == {1}
\* the instants at which the clock is read: both sides of 0.1 s, 3 s and 9 s
\* apart
Offsets == {0, 1, 30, 90, 91}
Instants == {StartClock + d : d \in Offsets}

SubTargets(p) ==
  CASE p = "cpp" -> <<CPP_EVENT_ID>>
    [] p = "bili" -> BILI_PROJECTS
    [] p = "xm" -> XM_GOODS_IDS
    [] p = "qg" -> QG_GOODS_IDS
    [] OTHER -> <<API_TICKET>>

SeqRange(s) == {s[i] : i \in 1..Len(s)}
SubIds(p) == SeqRange(SubTargets(p))

\* ------------------------------------------------------------ dict helpers
\* A Python dict is a sequence of [k, v] with distinct k, in insertion order.
Has(m, k) == \E i \in 1..Len(m) : m[i].k = k
Get(m, k) == m[CHOOSE i \in 1..Len(m) : m[i].k = k].v
Put(m, k, v) ==
  IF Has(m, k)
  THEN [i \in 1..Len(m) |-> IF m[i].k = k THEN [k |-> k, v |-> v] ELSE m[i]]
  ELSE Append(m, [k |-> k, v |-> v])

RECURSIVE Update(_, _)
\* dict.update: m with every entry of n put into it
Update(m, n) == IF n = <<>> THEN m ELSE Update(Put(m, Head(n).k, Head(n).v), Tail(n))

\* every element kept, duplicates too
Dedup_keep_all(xs, acc) == acc \o xs

RECURSIVE Dedup(_, _)
\* list(dict.fromkeys(xs)): each distinct element once, first-seen order
Dedup(xs, acc) ==
  IF xs = <<>> THEN acc
  ELSE Dedup(Tail(xs), IF Head(xs) \in SeqRange(acc) THEN acc ELSE Append(acc, Head(xs)))

RECURSIVE SetToSeq(_)
\* the elements of a set of integers in ascending order
SetToSeq(S) ==
  IF S = {} THEN <<>>
  ELSE LET lo == CHOOSE x \in S : \A y \in S : x <= y
       IN <<lo>> \o SetToSeq(S \ {lo})

\* ------------------------------------------------------------ fetch results
\* What a *_fetch_raw gives back: the parsed payload of a 200 response, or the
\* empty dict after a transport exception or a non-200 response.
Failure == [ok |-> FALSE, body |-> <<>>]
Ok(body) == [ok |-> TRUE, body |-> body]

\* A scalar of a parsed payload: null (also what .get gives for a missing
\* key), a number, a string of decimal digits, any other string.
Null == <<"null">>
Num(n) == <<"num", n>>
Numeral(n) == <<"numeral", n>>
Str(s) == <<"str", s>>

\* a JSON value that is not an object, where the code calls .get on it
NotADict == [scalar |-> TRUE]

\* the truth value Python gives a scalar
truthy(v) == v # Null /\ v # Num(0) /\ v # Str("")

\* int(v) raises for a string that is no numeral (ValueError) and for None
\* (TypeError)
int_raises(v) == v[1] \notin {"num", "numeral"}

\* int(v) when it does not raise
int_of(v) == v[2]

\* an exception on its way out of the function that raised it
ValueError == <<"raise", "ValueError">>

\* The result of one fetch-and-diff: changed lines, available lines, snapshot.
NoLines == [chg |-> <<>>, avail |-> <<>>, curr |-> <<>>]

\* ------------------------------------------------------------ cpp (ticket.py)
\* A raw ticket of ticketTypeList: [id, ticketName, remainderNum, openTimer].
cpp_status_label(rem, open_timer) ==
  IF open_timer > 0 THEN <<"not_open", rem>>
  ELSE IF rem > 0 THEN <<"buyable", rem>>
  ELSE <<"sold_out", 0>>

RECURSIVE cpp_loop_no_flag(_, _, _, _)
\* the loop of cpp_fetch_once without the first-run flag
cpp_loop_no_flag(list, first, prev_map, acc) ==
  IF list = <<>> THEN acc
  ELSE LET t == Head(list)
           key == t.id
           rem == IF t.remainderNum < 0 THEN 0 ELSE t.remainderNum
           status_label == cpp_status_label(rem, t.openTimer)
           on_sale == ~(t.openTimer > 0) /\ rem > 0
           line == <<t.ticketName, status_label>>
           changed == ~Has(prev_map, key) \/ Get(prev_map, key) # status_label
       IN cpp_loop_no_flag(Tail(list), first, prev_map,
                   [chg |-> IF changed THEN Append(acc.chg, line) ELSE acc.chg,
                    avail |-> IF on_sale THEN Append(acc.avail, line) ELSE acc.avail,
                    curr |-> Put(acc.curr, key, status_label)])

RECURSIVE cpp_loop(_, _, _, _)
\* the loop of cpp_fetch_once over ticketTypeList
cpp_loop(list, first, prev_map, acc) ==
  IF list = <<>> THEN acc
  ELSE LET t == Head(list)
           key == t.id
           rem == IF t.remainderNum < 0 THEN 0 ELSE t.remainderNum
           status_label == cpp_status_label(rem, t.openTimer)
           on_sale == ~(t.openTimer > 0) /\ rem > 0
           line == <<t.ticketName, status_label>>
           changed == first \/ ~Has(prev_map, key) \/ Get(prev_map, key) # status_label
       IN cpp_loop(Tail(list), first, prev_map,
                   [chg |-> IF changed THEN Append(acc.chg, line) ELSE acc.chg,
                    avail |-> IF on_sale THEN Append(acc.avail, line) ELSE acc.avail,
                    curr |-> Put(acc.curr, key, status_label)])

\* cpp_fetch_once with a failed fetch reported as a changed line
cpp_fetch_once_error_line(data, first, prev_map) ==
  IF data.ok THEN cpp_loop(data.body, first, prev_map, NoLines)
  ELSE [chg |-> <<(<<"error", <<"sold_out", 0>>>>)>>, avail |-> <<>>, curr |-> <<>>]

\* cpp_fetch_once with a line for every key of the baseline that the payload
\* no longer lists
cpp_fetch_once_report_removed(data, first, prev_map) ==
  LET r == cpp_loop(data.body, first, prev_map, NoLines)
      Gone(e) == ~Has(r.curr, e.k)
      gone == SelectSeq(prev_map, Gone)
  IN [r EXCEPT !.chg = @ \o [n \in 1..Len(gone) |-> <<gone[n].k, <<"sold_out", 0>>>>]]

\* cpp_fetch_once after cpp_fetch_raw has returned `data`
cpp_fetch_once(data, first, prev_map) == cpp_loop(data.body, first, prev_map, NoLines)

\* ------------------------------------------------------------ bili (ticket.py)
\* A raw ticket of screen_list/ticket_list: [name, number, display_name, num];
\* name stands for the pair (screen_name, desc) that makes the key.
is_on_sale(flag) == flag = 2

RECURSIVE bili_loop(_, _, _, _)
bili_loop(list, first, prev, acc) ==
  IF list = <<>> THEN acc
  ELSE LET ticket == Head(list)
           display == ticket.display_name
           count == IF ticket.num < 0 THEN 0 ELSE ticket.num
           key == ticket.name
           line == <<ticket.name, display, count>>
           changed == first \/ ~Has(prev, key) \/ Get(prev, key) # display
       IN bili_loop(Tail(list), first, prev,
                    [chg |-> IF changed THEN Append(acc.chg, line) ELSE acc.chg,
                     avail |-> IF is_on_sale(ticket.number)
                               THEN Append(acc.avail, line) ELSE acc.avail,
                     curr |-> Put(acc.curr, key, display)])

\* bili_fetch_once_for(params) after bili_fetch_raw has returned `info`;
\* prev is _bili_prev_status.get(project_id, {})
bili_fetch_once_for(info, first, prev) == bili_loop(info.body, first, prev, NoLines)

\* ------------------------------------------------------------ xm, qg (ticket.py)
RECURSIVE xm_build_lines(_, _)
\* A raw sku of sku_list: [spec1, store_count_text]; spec1 stands for the key
\* "date||ticket_type".
xm_build_lines(sku_list, curr_map) ==
  IF sku_list = <<>> THEN curr_map
  ELSE LET sku == Head(sku_list)
           status_norm == IF sku.store_count_text = "in_stock" THEN "presale" ELSE "sold_out"
       IN xm_build_lines(Tail(sku_list), Put(curr_map, sku.spec1, status_norm))

\* _qg_status_name(code): mapping.get(int(code or 0), f"状态{code}")
qg_status_name(code) ==
  LET arg == IF truthy(code) THEN code ELSE Num(0)
  IN IF int_raises(arg) THEN ValueError
     ELSE CASE int_of(arg) = 1 -> <<"not_open">>
            [] int_of(arg) = 2 -> <<"sold_out">>
            [] int_of(arg) = 3 -> <<"presale">>
            [] int_of(arg) = 4 -> <<"stopped">>
            [] OTHER -> <<"status", code>>

RECURSIVE qg_build_map(_, _)
\* A raw venue with its sku: [name, button_status]
qg_build_map(venue_list, curr_map) ==
  IF venue_list = <<>> THEN curr_map
  ELSE LET venue == Head(venue_list)
       IN qg_build_map(Tail(venue_list),
                       Put(curr_map, venue.name, qg_status_name(venue.button_status)))

RECURSIVE goods_loop_avail_changed(_, _, _, _, _)
\* the loop with every available item counted as changed
goods_loop_avail_changed(items, first, prev_map, presale, acc) ==
  IF items = <<>> THEN acc
  ELSE LET key == Head(items).k
           status == Head(items).v
           line == <<key, status>>
           changed == \/ first
                      \/ ~Has(prev_map, key)
                      \/ Get(prev_map, key) # status
                      \/ status = presale
       IN goods_loop_avail_changed(Tail(items), first, prev_map, presale,
                     [chg |-> IF changed THEN Append(acc.chg, line) ELSE acc.chg,
                      avail |-> IF status = presale THEN Append(acc.avail, line) ELSE acc.avail,
                      curr |-> acc.curr])

RECURSIVE goods_loop(_, _, _, _, _)
\* the loop of xm_fetch_once_for and of qg_fetch_once_for over curr_map.items()
goods_loop(items, first, prev_map, presale, acc) ==
  IF items = <<>> THEN acc
  ELSE LET key == Head(items).k
           status == Head(items).v
           line == <<key, status>>
           changed == first \/ ~Has(prev_map, key) \/ Get(prev_map, key) # status
       IN goods_loop(Tail(items), first, prev_map, presale,
                     [chg |-> IF changed THEN Append(acc.chg, line) ELSE acc.chg,
                      avail |-> IF status = presale THEN Append(acc.avail, line) ELSE acc.avail,
                      curr |-> acc.curr])

xm_fetch_once_for(info, first, prev_map) ==
  LET curr_map == xm_build_lines(info.body, <<>>)
  IN goods_loop(curr_map, first, prev_map, "presale", [NoLines EXCEPT !.curr = curr_map])

\* _qg_build_map has no try: an exception of _qg_status_name leaves it, and
\* qg_fetch_once_for and qg_tick_and_maybe_send after it
qg_build_map_raises(venue_list) ==
  \E n \in 1..Len(venue_list) : qg_status_name(venue_list[n].button_status) = ValueError

qg_fetch_once_for(info, first, prev_map) ==
  LET curr_map == qg_build_map(info.body, <<>>)
  IN goods_loop(curr_map, first, prev_map, <<"presale">>, [NoLines EXCEPT !.curr = curr_map])

\* ------------------------------------------------------------ throttle, faulty variants
\* rule 1 with ">" for ">="
send_rule_strict(chg, avail, now, last_send, last_avail) ==
  IF chg # <<>> /\ (now - last_send) > SEND_INTERVAL_CHANGE_SEC THEN "change"
  ELSE IF chg = <<>> /\ avail # <<>>
          /\ (now - last_avail) >= CONT_AVAIL_PUSH_MIN_INTERVAL_SEC
          /\ (now - last_send) >= MIN_SEND_GAP THEN "heartbeat"
  ELSE "none"

\* rule 2 without the 0.1 s gap to the last send
send_rule_no_gap(chg, avail, now, last_send, last_avail) ==
  IF chg # <<>> /\ (now - last_send) >= SEND_INTERVAL_CHANGE_SEC THEN "change"
  ELSE IF chg = <<>> /\ avail # <<>>
          /\ (now - last_avail) >= CONT_AVAIL_PUSH_MIN_INTERVAL_SEC THEN "heartbeat"
  ELSE "none"

\* rule 2 as a plain "elif avail": a throttled change falls through to it
send_rule_fallthrough(chg, avail, now, last_send, last_avail) ==
  IF chg # <<>> /\ (now - last_send) >= SEND_INTERVAL_CHANGE_SEC THEN "change"
  ELSE IF avail # <<>>
          /\ (now - last_avail) >= CONT_AVAIL_PUSH_MIN_INTERVAL_SEC
          /\ (now - last_send) >= MIN_SEND_GAP THEN "heartbeat"
  ELSE "none"

\* the heartbeat timestamp set on every send with available lines
send_rule_stamp_always(chg, avail, now, last_send, last_avail) ==
  IF chg # <<>> /\ (now - last_send) >= SEND_INTERVAL_CHANGE_SEC
  THEN (IF avail # <<>> THEN "heartbeat" ELSE "change")
  ELSE IF chg = <<>> /\ avail # <<>>
          /\ (now - last_avail) >= CONT_AVAIL_PUSH_MIN_INTERVAL_SEC
          /\ (now - last_send) >= MIN_SEND_GAP THEN "heartbeat"
  ELSE "none"

\* ------------------------------------------------------------ throttle
\* The send decision every poller makes: "change" (rule 1), "heartbeat"
\* (rule 2) or "none".
send_rule(chg, avail, now, last_send, last_avail) ==
  IF chg # <<>> /\ (now - last_send) >= SEND_INTERVAL_CHANGE_SEC THEN "change"
  ELSE IF chg = <<>> /\ avail # <<>>
          /\ (now - last_avail) >= CONT_AVAIL_PUSH_MIN_INTERVAL_SEC
          /\ (now - last_send) >= MIN_SEND_GAP THEN "heartbeat"
  ELSE "none"

\* ------------------------------------------------------------ flat API (ticket-re.py)
\* A payload is a list of blocks [platform, activity_id, items]; an item is
\* a dict that can hold name, status and count.
PLATS == <<"cpp", "bili", "xm", "qg">>
BUYABLE_SET == {"buyable", "presale"}
EmptyRes == [plat \in SeqRange(PLATS) |-> <<>>]

\* it.get(key) or ""
get_str(it, key) == IF key \in DOMAIN it THEN it[key] ELSE ""

\* cnt = it.get("count", None), then int(cnt) if cnt is not None else None,
\* and None when int raises: <<n>> holds n and <<>> is None
to_count(it) ==
  IF "count" \notin DOMAIN it THEN <<>>
  ELSE IF it.count = Null THEN <<>>
  ELSE IF int_raises(it.count) THEN <<>>
  ELSE <<int_of(it.count)>>

RECURSIVE split_items(_, _)
\* the loop over the items of a block
split_items(items, m) ==
  IF items = <<>> THEN m
  ELSE LET it == Head(items)
           name == get_str(it, "name")
       IN split_items(Tail(items),
                      IF name # ""
                      THEN Put(m, name, [status |-> get_str(it, "status"),
                                         count |-> to_count(it)])
                      ELSE m)

\* block.get and it.get raise AttributeError when block or it is no dict
split_raises(payload) ==
  \E n \in 1..Len(payload) :
    IF "scalar" \in DOMAIN payload[n] THEN TRUE
    ELSE \E k \in 1..Len(payload[n].items) : "scalar" \in DOMAIN payload[n].items[k]

RECURSIVE split_by_plat_and_id(_, _)
split_by_plat_and_id(payload, res) ==
  IF payload = <<>> THEN res
  ELSE LET block == Head(payload)
           plat == block.platform
       IN split_by_plat_and_id(Tail(payload),
            IF plat \notin SeqRange(PLATS) THEN res
            ELSE [res EXCEPT ![plat] =
                    Put(res[plat], block.activity_id, split_items(block.items, <<>>))])

fmt_line(plat, name, item) ==
  IF plat \in {"bili", "cpp"}
  THEN <<name, item.status, IF item.count = <<>> THEN 0 ELSE item.count[1]>>
  ELSE <<name, item.status>>

RECURSIVE diff_loop_status_only(_, _, _, _)
\* the loop of _diff without the comparison of counts
diff_loop_status_only(plat, prev, now_items, acc) ==
  IF now_items = <<>> THEN acc
  ELSE LET name == Head(now_items).k
           cur == Head(now_items).v
           changed == \/ ~Has(prev, name)
                      \/ Get(prev, name).status # cur.status
       IN diff_loop_status_only(plat, prev, Tail(now_items),
                    [chg |-> IF changed THEN Append(acc.chg, fmt_line(plat, name, cur))
                             ELSE acc.chg,
                     avail |-> IF cur.status \in BUYABLE_SET
                               THEN Append(acc.avail, fmt_line(plat, name, cur))
                               ELSE acc.avail,
                     curr |-> acc.curr])

RECURSIVE diff_loop(_, _, _, _)
\* the loop of _diff over now.items()
diff_loop(plat, prev, now_items, acc) ==
  IF now_items = <<>> THEN acc
  ELSE LET name == Head(now_items).k
           cur == Head(now_items).v
           changed == \/ ~Has(prev, name)
                      \/ Get(prev, name).status # cur.status
                      \/ Get(prev, name).count # cur.count
       IN diff_loop(plat, prev, Tail(now_items),
                    [chg |-> IF changed THEN Append(acc.chg, fmt_line(plat, name, cur))
                             ELSE acc.chg,
                     avail |-> IF cur.status \in BUYABLE_SET
                               THEN Append(acc.avail, fmt_line(plat, name, cur))
                               ELSE acc.avail,
                     curr |-> acc.curr])

\* _diff(plat, prev, now): (changes, avail)
diff(plat, prev, now_map) == diff_loop(plat, prev, now_map, [NoLines EXCEPT !.curr = now_map])

RECURSIVE merge_maps(_, _)
merge_maps(plat_map, merged) ==
  IF plat_map = <<>> THEN merged
  ELSE merge_maps(Tail(plat_map), Update(merged, Head(plat_map).v))

\* _merge_view(plat_map): (merged, sorted aids)
merge_view(plat_map) ==
  [merged |-> merge_maps(plat_map, <<>>),
   aids |-> SetToSeq({plat_map[i].k : i \in 1..Len(plat_map)})]

\* ------------------------------------------------------------ upstream states
CppTicket(id, rem, timer) ==
  [id |-> id, remainderNum |-> rem, openTimer |-> timer, ticketName |-> id]
BiliTicket(name, number, display, num) ==
  [display_name |-> display, num |-> num, name |-> name, number |-> number]
Sku(spec1, text) == [store_count_text |-> text, spec1 |-> spec1]
Venue(name, code) == [name |-> name, button_status |-> code]
Item(name, status, count) == [count |-> count, name |-> name, status |-> status]
ItemNoCount(name, status) == [name |-> name, status |-> status]
Block(plat, aid, items) == [items |-> items, platform |-> plat, activity_id |-> aid]

\* The payloads an upstream answers with (a 200 response), per poller; a
\* failed fetch stands for the empty answer.
CppPayloads ==
  { <<CppTicket("A", 0, 0)>>,
    <<CppTicket("A", 3, 0)>>,
    <<CppTicket("A", 3, 0), CppTicket("B", 0, 1)>> }

BiliPayloads ==
  { <<BiliTicket("A", 2, "presale", 5)>>,
    <<BiliTicket("A", 4, "sold_out", 0)>> }

XmPayloads == { <<Sku("A", "in_stock")>>, <<Sku("A", "out_of_stock")>> }

\* the third answer is a 200 response that lists no venue
QgPayloads == { <<Venue("A", Num(3))>>, <<Venue("A", Num(2))>>, <<>> }

FlatPayloads ==
  { <<Block("bili", 1, <<Item("A", "presale", Num(5))>>),
      Block("xm", 7, <<Item("X", "presale", Str("many"))>>)>>,
    <<Block("bili", 1, <<Item("A", "sold_out", Num(0))>>)>> }

Payloads(p) ==
  CASE p = "cpp" -> CppPayloads
    [] p = "bili" -> BiliPayloads
    [] p = "xm" -> XmPayloads
    [] p = "qg" -> QgPayloads
    [] OTHER -> FlatPayloads

\* ------------------------------------------------------------ state
VARIABLES
  jobs,             \* the pollers whose timer fires in this behaviour
  goods_ids,        \* XM_GOODS_IDS, QG_GOODS_IDS (and the ids of cpp and bili)
  clock,            \* time.time()
  upstream,         \* upstream[p][g]: what sub-target g of poller p answers now
  enabled_groups,   \* ENABLED_GROUPS
  bots,             \* get_bots()
  prev_status,      \* _cpp_prev_map, _bili_prev_status, _xm_prev_status, _qg_prev_status
  first_run,        \* _cpp_first_run, ...
  last_send,        \* _cpp_last_send, ...
  last_avail_push,  \* _cpp_last_avail_push, ...
  next_index,       \* _xm_next_index, _qg_next_index
  req_count,        \* _cpp_req_count, ...
  job_lock,         \* _cpp_job_lock, ...: TRUE when held
  rebuild_lock,     \* _cpp_rebuild_lock, ...: TRUE when held
  client,           \* cpp_client, ...: "open", or "closing" inside aclose()
  task,             \* task[p][i]: instance i of poller p's job
  flat_prev,        \* _prev of ticket-re.py
  flat_last_send,   \* _last_send of ticket-re.py
  flat_last_avail_push, \* _last_avail_push of ticket-re.py
  flat_req,         \* GETs of ticket-re.py's poller so far (observer)
  ev                \* what the last step did (observer, read by no action)

vars == <<jobs, goods_ids, clock, upstream, enabled_groups, bots, prev_status, first_run,
          last_send, last_avail_push, next_index, req_count, job_lock,
          rebuild_lock, client, task, flat_prev, flat_last_send,
          flat_last_avail_push, flat_req, ev>>

srcVars == <<prev_status, first_run, last_send, last_avail_push, next_index,
             req_count, job_lock, rebuild_lock, client>>
flatVars == <<flat_prev, flat_last_send, flat_last_avail_push>>
envVars == <<jobs, goods_ids, clock, upstream, enabled_groups, bots>>

IdleTask ==
  [pc |-> "idle", goods_id |-> 0, pending |-> {}, got |-> <<>>, now |-> 0,
   rule |-> "none", key |-> <<>>, curr |-> <<>>, text |-> <<>>,
   bots_left |-> <<>>, gids_left |-> <<>>, pos |-> 0, prev_plat |-> <<>>,
   log |-> <<>>]

NoEv == [type |-> "none"]

GetOr(m, k, d) == IF Has(m, k) THEN Get(m, k) ELSE d

\* the upstreams when only poller p is watched: any answer for each of its
\* sub-targets
UpstreamsFor(p) ==
  {[q \in Pollers |-> IF q = p THEN f ELSE [g \in SubIds(q) |-> <<>>]] :
     f \in [SubIds(p) -> Payloads(p)]}

InitState ==
  /\ clock = StartClock
  /\ prev_status = [p \in Sources |-> <<>>]
  /\ first_run = [p \in Sources |-> TRUE]
  /\ last_send = [p \in Sources |-> 0]
  /\ last_avail_push = [p \in Sources |-> 0]
  /\ next_index = [p \in Sources |-> 0]
  /\ job_lock = [p \in Sources |-> FALSE]
  /\ rebuild_lock = [p \in Sources |-> FALSE]
  /\ client = [p \in Sources |-> "open"]
  /\ task = [p \in Pollers |-> [i \in Instances |-> IdleTask]]
  /\ flat_last_avail_push = <<>>
  /\ flat_req = 0
  /\ ev = NoEv

\* the ids as the repository configures them
InitCommon ==
  /\ InitState
  /\ goods_ids = [p \in Sources |-> SubTargets(p)]

\* The process has just started; each behaviour follows the timer of one
\* poller (the pollers share no state but the clock and the subscriptions).
Init ==
  /\ InitCommon
  /\ enabled_groups = {}
  /\ bots = BotIds
  /\ flat_prev = EmptyRes
  /\ flat_last_send = <<>>
  /\ \E p \in Pollers : jobs = {p} /\ upstream \in UpstreamsFor(p)
  /\ req_count = [p \in Sources |-> 0]

\* ------------------------------------------------------------ safe_broadcast
RECURSIVE next_bot(_, _)
\* the outer loop of safe_broadcast from the bots in bl on: the first bot
\* whose list(ENABLED_GROUPS) is not empty, with that list
next_bot(bl, groups) ==
  IF bl = <<>> THEN [bots_left |-> <<>>, gids_left |-> <<>>]
  ELSE IF groups = {} THEN next_bot(Tail(bl), groups)
  ELSE [bots_left |-> bl, gids_left |-> SetToSeq(groups)]

\* safe_broadcast(text) up to its first await: the delivery it waits for,
\* or nothing to wait for
broadcast_start(text, groups, bs) ==
  IF text = <<>> \/ groups = {} THEN next_bot(<<>>, groups)
  ELSE next_bot(SetToSeq(bs), groups)

\* a delivery that raises ends the broadcast
broadcast_step_raise(t, groups, ok) ==
  IF ~ok THEN [bots_left |-> <<>>, gids_left |-> <<>>]
  ELSE IF Len(t.gids_left) > 1
  THEN [bots_left |-> t.bots_left, gids_left |-> Tail(t.gids_left)]
  ELSE next_bot(Tail(t.bots_left), groups)

\* after the delivery at the head of gids_left has returned (ok) or raised:
\* every exception is caught and logged, and the loops go on
broadcast_step(t, groups, ok) ==
  IF Len(t.gids_left) > 1
  THEN [bots_left |-> t.bots_left, gids_left |-> Tail(t.gids_left)]
  ELSE next_bot(Tail(t.bots_left), groups)

\* the delivery the broadcast of task t awaits, with its outcome
attempt(t, ok) == [bot |-> Head(t.bots_left), gid |-> Head(t.gids_left), ok |-> ok]

\* ------------------------------------------------------------ ticket.py: one cycle
\* the entry check left out
locked_never(p) == FALSE

\* the entry check also looking at the rebuild lock
locked_or_rebuilding(p) == job_lock[p] \/ rebuild_lock[p]

\* the entry check looking at every source's job lock and rebuild lock
locked_any(p) == \E q \in Sources : job_lock[q] \/ rebuild_lock[q]

\* _cpp_job_lock.locked()
locked(p) == job_lock[p]

Rotating(p) == p \in {"xm", "qg"}

\* the cursor left where it is
next_index_stuck(idx, ids) == idx % Len(ids)

\* _xm_next_index = (_xm_next_index + 1) % len(XM_GOODS_IDS), and the same
\* line of qg
next_index_after(idx, ids) == (idx + 1) % Len(ids)

\* The scheduler runs at most MAX_INSTANCES instances of a job; a new run
\* takes the first free instance.
FreeInstance(p, i) ==
  /\ task[p][i].pc = "idle"
  /\ \A j \in Instances : j < i => task[p][j].pc # "idle"

\* the request counter is within the window the behaviours cover
CanStart(p) ==
  LET after == req_count[p] + (IF Rotating(p) THEN 1 ELSE Len(SubTargets(p)))
  IN \/ after <= MaxReq
     \/ /\ req_count[p] >= REBUILD_THRESHOLD - MaxReq
        /\ after <= REBUILD_THRESHOLD + MaxReq

RECURSIVE bili_collect(_, _, _, _, _)
\* the loop over zip(BILI_PROJECTS, results) of bili_tick_and_maybe_send
bili_collect(projects, got, first, prev, acc) ==
  IF projects = <<>> THEN acc
  ELSE LET pid == Head(projects)
           res == bili_fetch_once_for(Get(got, pid), first, GetOr(prev, pid, <<>>))
       IN bili_collect(Tail(projects), got, first, prev,
                       [chg |-> acc.chg \o res.chg,
                        avail |-> acc.avail \o res.avail,
                        curr |-> Put(acc.curr, pid, res.curr)])

\* what the cycle of poller p has after its fetches, when the first-run flag
\* is `first` and the stored baseline is `prev`: chg, avail and the snapshot
\* it would store
fetched_with(p, t, first, prev) ==
  CASE p = "cpp" ->
         cpp_fetch_once(Get(t.got, CPP_EVENT_ID), first, prev)
    [] p = "bili" ->
         bili_collect(BILI_PROJECTS, t.got, first, prev, NoLines)
    [] p = "xm" ->
         xm_fetch_once_for(Get(t.got, t.goods_id), first, GetOr(prev, t.goods_id, <<>>))
    [] OTHER ->
         qg_fetch_once_for(Get(t.got, t.goods_id), first, GetOr(prev, t.goods_id, <<>>))

\* with the globals as they are
fetched(p, t) == fetched_with(p, t, first_run[p], prev_status[p])

\* the baseline the diff of poller p's cycle reads: _cpp_prev_map,
\* _bili_prev_status, _xm_prev_status.get(goods_id, {})
consulted(p, t) ==
  IF Rotating(p) THEN GetOr(prev_status[p], t.goods_id, <<>>) ELSE prev_status[p]

\* the title of poller p's notification: the sub-targets it names
title(p, t) == IF Rotating(p) THEN <<p, <<t.goods_id>>>> ELSE <<p, SubTargets(p)>>

\* the baseline replaced as a whole by what the cycle fetched
stored_alone(p, t) ==
  IF Rotating(p) THEN <<[k |-> t.goods_id, v |-> t.curr]>> ELSE t.curr

\* the baseline after a send: _cpp_prev_map = curr_map,
\* _bili_prev_status = curr_all, _xm_prev_status[goods_id] = curr
stored(p, t) ==
  IF Rotating(p) THEN Put(prev_status[p], t.goods_id, t.curr) ELSE t.curr

\* The end of a tick once the job lock is released: the request counter is
\* checked and _rebuild_*_client runs up to its first await.
EndOfTick(p, i) ==
  IF req_count[p] >= REBUILD_THRESHOLD
  THEN IF rebuild_lock[p] \/ \E j \in Instances : task[p][j].pc = "wait_rebuild"
       THEN /\ task' = [task EXCEPT ![p][i] = [IdleTask EXCEPT !.pc = "wait_rebuild"]]
            /\ UNCHANGED <<rebuild_lock, client>>
       ELSE /\ task' = [task EXCEPT ![p][i] = [IdleTask EXCEPT !.pc = "closing"]]
            /\ rebuild_lock' = [rebuild_lock EXCEPT ![p] = TRUE]
            /\ client' = [client EXCEPT ![p] = "closing"]
  ELSE /\ task' = [task EXCEPT ![p][i] = IdleTask]
       /\ UNCHANGED <<rebuild_lock, client>>

\* the send undone when no delivery succeeded
Commit_if_delivered(p, i, t) ==
  /\ IF \E k \in 1..Len(t.log) : t.log[k].ok
     THEN /\ last_send' = [last_send EXCEPT ![p] = t.now]
          /\ first_run' = [first_run EXCEPT ![p] = FALSE]
          /\ prev_status' = [prev_status EXCEPT ![p] = stored(p, t)]
     ELSE UNCHANGED <<last_send, first_run, prev_status>>
  /\ job_lock' = [job_lock EXCEPT ![p] = FALSE]
  /\ EndOfTick(p, i)

\* "if should_send:" after safe_broadcast has returned: t.log holds the
\* deliveries it attempted
Commit(p, i, t) ==
  /\ last_send' = [last_send EXCEPT ![p] = t.now]
  /\ first_run' = [first_run EXCEPT ![p] = FALSE]
  /\ prev_status' = [prev_status EXCEPT ![p] = stored(p, t)]
  /\ job_lock' = [job_lock EXCEPT ![p] = FALSE]
  /\ EndOfTick(p, i)

\* the snapshot stored as the baseline though nothing was sent
Skipped_store(p, i, t) ==
  /\ prev_status' = [prev_status EXCEPT ![p] = stored(p, t)]
  /\ UNCHANGED <<last_send, first_run>>
  /\ job_lock' = [job_lock EXCEPT ![p] = FALSE]
  /\ EndOfTick(p, i)

\* should_send is False: the "if should_send:" block is not entered and the
\* cycle ends
Skipped(p, i, t) ==
  /\ UNCHANGED <<last_send, first_run, prev_status>>
  /\ job_lock' = [job_lock EXCEPT ![p] = FALSE]
  /\ EndOfTick(p, i)

\* A tick that finds the job lock held returns.
TickSkip(p, i) ==
  /\ p \in jobs \cap Sources
  /\ FreeInstance(p, i)
  /\ locked(p)
  /\ ev' = [type |-> "tick", poller |-> p, inst |-> i, entered |-> FALSE]
  /\ UNCHANGED <<envVars, srcVars, flatVars, flat_req, task>>

\* A tick that takes the job lock and runs to its first await.
TickEnter(p, i) ==
  /\ p \in jobs \cap Sources
  /\ FreeInstance(p, i)
  /\ CanStart(p)
  /\ ~locked(p)
  /\ ev' = [type |-> "tick", poller |-> p, inst |-> i, entered |-> TRUE]
  /\ IF Rotating(p) /\ goods_ids[p] = <<>>
     THEN UNCHANGED <<srcVars, task>>
     ELSE /\ job_lock' = [job_lock EXCEPT ![p] = TRUE]
          /\ IF Rotating(p)
             THEN LET ids == goods_ids[p]
                      goods_id == ids[(next_index[p] % Len(ids)) + 1]
                  IN /\ next_index' = [next_index EXCEPT ![p] = next_index_after(@, ids)]
                     /\ req_count' = [req_count EXCEPT ![p] = @ + 1]
                     /\ task' = [task EXCEPT ![p][i] =
                                   [IdleTask EXCEPT !.pc = "fetch", !.goods_id = goods_id,
                                                    !.pending = {goods_id}]]
             ELSE IF p = "cpp"
             THEN /\ req_count' = [req_count EXCEPT ![p] = @ + 1]
                  /\ task' = [task EXCEPT ![p][i] =
                                [IdleTask EXCEPT !.pc = "fetch", !.pending = SubIds(p)]]
                  /\ UNCHANGED next_index
             ELSE /\ task' = [task EXCEPT ![p][i] =
                                [IdleTask EXCEPT !.pc = "gather", !.pending = SubIds(p)]]
                  /\ UNCHANGED <<next_index, req_count>>
          /\ UNCHANGED <<prev_status, first_run, last_send, last_avail_push,
                         rebuild_lock, client>>
  /\ UNCHANGED <<envVars, flat_req, flatVars>>

\* asyncio.gather starts one bili_fetch_once_for per project; each counts its
\* request and awaits its GET.
BiliSpawn(i) ==
  /\ "bili" \in jobs
  /\ task["bili"][i].pc = "gather"
  /\ req_count' = [req_count EXCEPT !["bili"] = @ + Len(BILI_PROJECTS)]
  /\ task' = [task EXCEPT !["bili"][i].pc = "fetch"]
  /\ ev' = NoEv
  /\ UNCHANGED <<envVars, flat_req, flatVars, prev_status, first_run, last_send,
                 last_avail_push, next_index, job_lock, rebuild_lock, client>>

\* The send decision of a cycle whose fetches have all returned, and what
\* follows without an await: t is the task with every result in t.got.
Decide(p, i, t) ==
  LET f == fetched(p, t)
      now == clock
      rule == send_rule(f.chg, f.avail, now, last_send[p], last_avail_push[p])
      text == <<title(p, t), Dedup(f.chg \o f.avail, <<>>), now>>
      b == broadcast_start(text, enabled_groups, bots)
      t2 == [t EXCEPT !.now = now, !.rule = rule, !.curr = f.curr, !.text = text,
                      !.bots_left = b.bots_left, !.gids_left = b.gids_left,
                      !.pc = "send"]
  IN /\ ev' = [type |-> "decide", poller |-> p, inst |-> i, log |-> <<>>, done |-> FALSE,
               decisions |-> <<[key |-> <<p>>, chg |-> f.chg, avail |-> f.avail,
                                now |-> now, last_send |-> last_send[p],
                                last_avail |-> last_avail_push[p], rule |-> rule,
                                first |-> first_run[p], prev |-> consulted(p, t),
                                curr |-> f.curr, text |-> text,
                                failed |-> {t.got[n].k : n \in {m \in 1..Len(t.got) :
                                                                 ~t.got[m].v.ok}}]>>]
     /\ last_avail_push' = IF rule = "heartbeat"
                           THEN [last_avail_push EXCEPT ![p] = now]
                           ELSE last_avail_push
     /\ IF rule = "none"
        THEN Skipped(p, i, t2)
        ELSE IF b.bots_left = <<>>
        THEN Commit(p, i, t2)
        ELSE /\ task' = [task EXCEPT ![p][i] = t2]
             /\ UNCHANGED <<last_send, first_run, prev_status, job_lock,
                            rebuild_lock, client>>

\* the normalizer of poller p's cycle raises on what the fetches returned
raises(p, t) ==
  /\ p = "qg"
  /\ qg_build_map_raises(Get(t.got, t.goods_id).body)

\* the job lock still held after the exception
Raise_keep_lock(p, i) ==
  /\ task' = [task EXCEPT ![p][i] = IdleTask]
  /\ ev' = [type |-> "raise", poller |-> p, inst |-> i]
  /\ UNCHANGED <<prev_status, first_run, last_send, last_avail_push, job_lock,
                 rebuild_lock, client>>

\* An exception leaves the tick function: "async with" releases the job lock
\* on the way, the lines after it are not run, and the scheduler logs the
\* exception of the job.
Raise(p, i) ==
  /\ job_lock' = [job_lock EXCEPT ![p] = FALSE]
  /\ task' = [task EXCEPT ![p][i] = IdleTask]
  /\ ev' = [type |-> "raise", poller |-> p, inst |-> i]
  /\ UNCHANGED <<prev_status, first_run, last_send, last_avail_push,
                 rebuild_lock, client>>

\* One GET of a cycle returns: the upstream's payload (ok), or a transport
\* exception or non-200 response (not ok).  The last one to return lets the
\* cycle go on to its send decision.
FetchReturn(p, i, g, ok) ==
  /\ p \in jobs \cap Sources
  /\ task[p][i].pc = "fetch"
  /\ g \in task[p][i].pending
  /\ LET r == IF ok THEN Ok(upstream[p][g]) ELSE Failure
         t == [task[p][i] EXCEPT !.pending = @ \ {g}, !.got = Put(@, g, r)]
     IN IF t.pending # {}
        THEN /\ task' = [task EXCEPT ![p][i] = t]
             /\ ev' = NoEv
             /\ UNCHANGED <<prev_status, first_run, last_send, last_avail_push,
                            job_lock, rebuild_lock, client>>
        ELSE IF raises(p, t) THEN Raise(p, i)
        ELSE Decide(p, i, t)
  /\ UNCHANGED <<envVars, flat_req, flatVars, next_index, req_count>>

\* bot.send_group_msg for the pair at the head returns (ok) or raises; the
\* loops of safe_broadcast go on, and after the last pair the cycle commits.
Deliver(p, i, ok) ==
  /\ p \in jobs \cap Sources
  /\ task[p][i].pc = "send"
  /\ LET t == task[p][i]
         b == broadcast_step(t, enabled_groups, ok)
         log == Append(t.log, attempt(t, ok))
     IN /\ ev' = [type |-> "deliver", poller |-> p, inst |-> i, log |-> log,
                  done |-> b.bots_left = <<>>]
        /\ IF b.bots_left = <<>>
           THEN Commit(p, i, [t EXCEPT !.log = log])
           ELSE /\ task' = [task EXCEPT ![p][i] =
                              [t EXCEPT !.bots_left = b.bots_left, !.gids_left = b.gids_left,
                                        !.log = log]]
                /\ UNCHANGED <<last_send, first_run, prev_status, job_lock,
                               rebuild_lock, client>>
  /\ UNCHANGED <<envVars, flat_req, flatVars, last_avail_push, next_index, req_count>>

\* A tick waiting for the rebuild lock gets it and starts closing the client.
RebuildAcquire(p, i) ==
  /\ p \in jobs \cap Sources
  /\ task[p][i].pc = "wait_rebuild"
  /\ ~rebuild_lock[p]
  /\ rebuild_lock' = [rebuild_lock EXCEPT ![p] = TRUE]
  /\ client' = [client EXCEPT ![p] = "closing"]
  /\ task' = [task EXCEPT ![p][i].pc = "closing"]
  /\ ev' = NoEv
  /\ UNCHANGED <<envVars, flat_req, flatVars, prev_status, first_run, last_send,
                 last_avail_push, next_index, req_count, job_lock>>

\* aclose() returns or raises: the new client is built, the rebuild lock is
\* released and the tick resets the request counter.
CloseDone(p, i) ==
  /\ p \in jobs \cap Sources
  /\ task[p][i].pc = "closing"
  /\ client' = [client EXCEPT ![p] = "open"]
  /\ rebuild_lock' = [rebuild_lock EXCEPT ![p] = FALSE]
  /\ req_count' = [req_count EXCEPT ![p] = 0]
  /\ task' = [task EXCEPT ![p][i] = IdleTask]
  /\ ev' = NoEv
  /\ UNCHANGED <<envVars, flat_req, flatVars, prev_status, first_run, last_send,
                 last_avail_push, next_index, job_lock>>

\* ------------------------------------------------------------ ticket-re.py: one tick
RECURSIVE per_aid_work(_, _)
per_aid_work(plat, plat_map) ==
  IF plat_map = <<>> THEN <<>>
  ELSE <<[plat |-> plat, key |-> <<plat, Head(plat_map).k>>, aids |-> <<Head(plat_map).k>>,
          now_map |-> Head(plat_map).v]>>
       \o per_aid_work(plat, Tail(plat_map))

merged_work(plat, plat_map) ==
  LET v == merge_view(plat_map)
  IN <<[plat |-> plat, key |-> <<plat, "merged">>, aids |-> v.aids, now_map |-> v.merged]>>

\* The calls of _maybe_send_keyed one tick makes, in order: one per activity
\* id of cpp and of bili, then one for xm and one for qg (merged).
work(curr) ==
  per_aid_work("cpp", curr["cpp"]) \o per_aid_work("bili", curr["bili"])
  \o merged_work("xm", curr["xm"]) \o merged_work("qg", curr["qg"])

\* the baseline the diff at position pos of the work list w uses: prev_plat is
\* read from _prev when the loop reaches a platform, and kept for its ids
baseline(w, pos, pp) ==
  LET plat == w[pos].plat
      prev_plat == IF pos = 1 \/ w[pos - 1].plat # plat THEN flat_prev[plat] ELSE pp
  IN [prev_plat |-> prev_plat,
      before |-> IF plat \in {"cpp", "bili"}
                 THEN GetOr(prev_plat, w[pos].aids[1], <<>>)
                 ELSE merge_view(prev_plat).merged]

RECURSIVE flat_run(_, _, _, _, _, _, _)
\* tick_and_maybe_send from position pos of its work list w up to its next
\* await or its end: the throttle dicts, the decisions taken, and the task
\* (at "send" when it awaits a delivery, idle when the tick is over).
flat_run(t, w, pos, pp, ls, la, ds) ==
  IF pos > Len(w)
  THEN [task |-> IdleTask, done |-> TRUE, ls |-> ls, la |-> la, ds |-> ds]
  ELSE LET b == baseline(w, pos, pp)
           d == diff(w[pos].plat, b.before, w[pos].now_map)
           key == w[pos].key
           now == clock
           rule == send_rule(d.chg, d.avail, now, GetOr(ls, key, 0), GetOr(la, key, 0))
           la2 == IF rule = "heartbeat" THEN Put(la, key, now) ELSE la
           text == <<<<w[pos].plat, w[pos].aids>>, Dedup(d.chg \o d.avail, <<>>), now>>
           bc == broadcast_start(text, enabled_groups, bots)
           ds2 == Append(ds, [key |-> key, chg |-> d.chg, avail |-> d.avail, now |-> now,
                              last_send |-> GetOr(ls, key, 0),
                              last_avail |-> GetOr(la, key, 0), rule |-> rule,
                              first |-> FALSE, prev |-> b.before,
                              curr |-> w[pos].now_map, text |-> text,
                              failed |-> IF t.got = <<>> \/ t.got[1].v.ok THEN {}
                                         ELSE {API_TICKET}])
       IN IF rule = "none" THEN flat_run(t, w, pos + 1, b.prev_plat, ls, la2, ds2)
          ELSE IF bc.bots_left = <<>>
          THEN flat_run(t, w, pos + 1, b.prev_plat, Put(ls, key, now), la2, ds2)
          ELSE [task |-> [t EXCEPT !.pc = "send", !.pos = pos, !.prev_plat = b.prev_plat,
                                   !.key = key, !.now = now, !.rule = rule, !.text = text,
                                   !.bots_left = bc.bots_left, !.gids_left = bc.gids_left,
                                   !.log = <<>>],
                done |-> FALSE, ls |-> ls, la |-> la2, ds |-> ds2]

\* The scheduler starts an instance of tick_and_maybe_send, which awaits its GET.
FlatTick(i) ==
  /\ "flat" \in jobs
  /\ FreeInstance("flat", i)
  /\ flat_req < MaxFlatReq
  /\ flat_req' = flat_req + 1
  /\ task' = [task EXCEPT !["flat"][i] = [IdleTask EXCEPT !.pc = "fetch"]]
  /\ ev' = [type |-> "tick", poller |-> "flat", inst |-> i, entered |-> TRUE]
  /\ UNCHANGED <<envVars, srcVars, flatVars>>

\* _fetch_ticket returns the payload, or [] after an exception or a non-200
\* response; the tick normalizes it and runs to its next await.
FlatFetchReturn(i, ok) ==
  /\ "flat" \in jobs
  /\ task["flat"][i].pc = "fetch"
  /\ ok => ~split_raises(upstream["flat"][API_TICKET])
  /\ LET r == IF ok THEN Ok(upstream["flat"][API_TICKET]) ELSE Failure
         t == [task["flat"][i] EXCEPT !.got = Put(@, API_TICKET, r),
                                      !.curr = split_by_plat_and_id(r.body, EmptyRes)]
     IN \E run \in {flat_run(t, work(t.curr), 1, <<>>, flat_last_send,
                              flat_last_avail_push, <<>>)} :
          /\ task' = [task EXCEPT !["flat"][i] = run.task]
          /\ flat_last_send' = run.ls
          /\ flat_last_avail_push' = run.la
          /\ flat_prev' = IF run.done THEN t.curr ELSE flat_prev
          /\ ev' = [type |-> "decide", poller |-> "flat", inst |-> i, decisions |-> run.ds,
                    log |-> <<>>, done |-> FALSE]
  /\ UNCHANGED <<envVars, srcVars, flat_req>>

\* _fetch_ticket returns a payload on which _split_by_plat_and_id raises: the
\* exception leaves tick_and_maybe_send, and the scheduler logs it.
FlatRaise(i) ==
  /\ "flat" \in jobs
  /\ task["flat"][i].pc = "fetch"
  /\ split_raises(upstream["flat"][API_TICKET])
  /\ task' = [task EXCEPT !["flat"][i] = IdleTask]
  /\ ev' = [type |-> "raise", poller |-> "flat", inst |-> i]
  /\ UNCHANGED flatVars
  /\ UNCHANGED <<envVars, srcVars, flat_req>>

\* A delivery of the broadcast the tick awaits returns or raises; after the
\* last one _last_send[key] is set and the tick runs on.
FlatDeliver(i, ok) ==
  /\ "flat" \in jobs
  /\ task["flat"][i].pc = "send"
  /\ LET t == task["flat"][i]
         b == broadcast_step(t, enabled_groups, ok)
         log == Append(t.log, attempt(t, ok))
     IN IF b.bots_left # <<>>
        THEN /\ task' = [task EXCEPT !["flat"][i] =
                           [t EXCEPT !.bots_left = b.bots_left, !.gids_left = b.gids_left,
                                     !.log = log]]
             /\ ev' = [type |-> "deliver", poller |-> "flat", inst |-> i, log |-> log,
                       done |-> FALSE]
             /\ UNCHANGED flatVars
        ELSE \E run \in {flat_run(t, work(t.curr), t.pos + 1, t.prev_plat,
                                   Put(flat_last_send, t.key, t.now),
                                   flat_last_avail_push, <<>>)} :
                /\ task' = [task EXCEPT !["flat"][i] = run.task]
                /\ flat_last_send' = run.ls
                /\ flat_last_avail_push' = run.la
                /\ flat_prev' = IF run.done THEN t.curr ELSE flat_prev
                /\ ev' = [type |-> IF run.ds = <<>> THEN "deliver" ELSE "decide",
                          poller |-> "flat", inst |-> i, decisions |-> run.ds,
                          log |-> log, done |-> TRUE]
  /\ UNCHANGED <<envVars, srcVars, flat_req>>

\* ------------------------------------------------------------ environment
Advance(t) ==
  /\ t \in Instants
  /\ t > clock
  /\ clock' = t
  /\ ev' = NoEv
  /\ UNCHANGED <<jobs, goods_ids, upstream, enabled_groups, bots, srcVars, flatVars, flat_req, task>>

UpstreamChange(p, g, body) ==
  /\ p \in jobs
  /\ body # upstream[p][g]
  /\ upstream' = [upstream EXCEPT ![p][g] = body]
  /\ ev' = NoEv
  /\ UNCHANGED <<jobs, goods_ids, clock, enabled_groups, bots, srcVars, flatVars, flat_req, task>>

\* _handle_enable
Enable(gid) ==
  /\ gid \notin enabled_groups
  /\ enabled_groups' = enabled_groups \cup {gid}
  /\ ev' = NoEv
  /\ UNCHANGED <<jobs, goods_ids, clock, upstream, bots, srcVars, flatVars, flat_req, task>>

\* _handle_disable
Disable(gid) ==
  /\ gid \in enabled_groups
  /\ enabled_groups' = enabled_groups \ {gid}
  /\ ev' = NoEv
  /\ UNCHANGED <<jobs, goods_ids, clock, upstream, bots, srcVars, flatVars, flat_req, task>>

NextSources ==
  \/ \E p \in Sources, i \in Instances : TickSkip(p, i)
  \/ \E p \in Sources, i \in Instances : TickEnter(p, i)
  \/ \E i \in Instances : BiliSpawn(i)
  \/ \E p \in Sources, i \in Instances, ok \in BOOLEAN :
       \E g \in SubIds(p) : FetchReturn(p, i, g, ok)
  \/ \E p \in Sources, i \in Instances, ok \in BOOLEAN : Deliver(p, i, ok)

NextRebuild ==
  \/ \E p \in Sources, i \in Instances : RebuildAcquire(p, i)
  \/ \E p \in Sources, i \in Instances : CloseDone(p, i)

NextEnv ==
  \/ \E t \in Instants : Advance(t)
  \/ \E p \in Pollers : \E g \in SubIds(p) : \E body \in Payloads(p) :
       UpstreamChange(p, g, body)
  \/ \E gid \in Groups : Enable(gid)
  \/ \E gid \in Groups : Disable(gid)

NextFlat ==
  \/ \E i \in Instances : FlatTick(i)
  \/ \E i \in Instances, ok \in BOOLEAN : FlatFetchReturn(i, ok)
  \/ \E i \in Instances, ok \in BOOLEAN : FlatDeliver(i, ok)

Next == NextSources \/ NextFlat \/ NextEnv

\* The pollers from a fresh start, within their first MaxReq requests.
Spec == Init /\ [][Next]_vars

\* A poller of ticket.py two requests before REBUILD_THRESHOLD: the cycles so
\* far fetched nothing (no send, so only the request counter shows them; the
\* rotation cursor is back at 0 after an even number of cycles).
InitRebuild ==
  /\ InitCommon
  /\ enabled_groups = {}
  /\ bots = BotIds
  /\ flat_prev = EmptyRes
  /\ flat_last_send = <<>>
  /\ \E p \in Sources : jobs = {p} /\ upstream \in UpstreamsFor(p)
  /\ req_count = [p \in Sources |-> REBUILD_THRESHOLD - 2]

NextGroups ==
  \/ \E gid \in Groups : Enable(gid)
  \/ \E gid \in Groups : Disable(gid)

SpecRebuild == InitRebuild /\ [][NextSources \/ NextRebuild \/ NextGroups]_vars

\* aclose() returns or raises in the end, and a released asyncio.Lock goes to
\* the task waiting for it
SpecRebuildFair == SpecRebuild /\ WF_vars(NextRebuild)

\* ------------------------------------------------------------ two sources at once
\* the upstreams when pollers p and q are watched: each answers the same
\* for all its sub-targets
UpstreamsForPair(p, q) ==
  {[r \in Pollers |-> [g \in SubIds(r) |-> IF r = p THEN f[1] ELSE IF r = q THEN f[2]
                                                      ELSE <<>>]] :
     f \in Payloads(p) \X Payloads(q)}

\* The timers of two sources of ticket.py fire in the same process, both
\* sources two requests before REBUILD_THRESHOLD, one group subscribed.
InitPair ==
  /\ InitCommon
  /\ enabled_groups = Groups
  /\ bots = BotIds
  /\ flat_prev = EmptyRes
  /\ flat_last_send = <<>>
  /\ \E p \in Sources, q \in Sources :
       /\ p # q
       /\ jobs = {p, q}
       /\ upstream \in UpstreamsForPair(p, q)
  /\ req_count = [p \in Sources |-> REBUILD_THRESHOLD - 2]

\* the behaviours followed: each source up to its first rebuild, and a tick
\* or two that arrive during it
PairWindow ==
  \A p \in Sources :
    \/ req_count[p] = 0
    \/ /\ req_count[p] >= REBUILD_THRESHOLD - 2
       /\ req_count[p] <= REBUILD_THRESHOLD + 2

NextPair == (NextSources \/ NextRebuild) /\ PairWindow'

SpecPair == InitPair /\ [][NextPair]_vars

\* ------------------------------------------------------------ any answer, any configuration
\* what a venue of qg can carry as button_status: nothing, zero, the four
\* known codes, an unknown one, a numeral, some other text
QgCodes == {Null, Num(0), Num(1), Num(2), Num(3), Num(4), Num(7), Numeral(3), Str("soon")}

QgAnswers == {<<Venue("A", c)>> : c \in QgCodes}

\* what the flat API can answer besides FlatPayloads: an item without count
\* and status, an error object in place of the list of blocks, a block whose
\* items are not objects
FlatAnswers ==
  FlatPayloads
  \cup { <<Block("bili", 1, <<[name |-> "A"]>>)>>,
         <<NotADict>>,
         <<Block("bili", 1, <<NotADict>>)>> }

Answers(p) ==
  CASE p = "qg" -> QgAnswers
    [] p = "flat" -> FlatAnswers
    [] OTHER -> Payloads(p)

\* the lists of ids a source can be configured with: the repository's, and
\* for xm and qg the empty list
Configurations(p) == IF Rotating(p) THEN {SubTargets(p), <<>>} ELSE {SubTargets(p)}

\* One poller starts with a group subscribed; its upstream gives any answer.
InitCycle ==
  /\ InitState
  /\ enabled_groups = Groups
  /\ bots = BotIds
  /\ flat_prev = EmptyRes
  /\ flat_last_send = <<>>
  /\ req_count = [p \in Sources |-> 0]
  /\ \E p \in Pollers :
       /\ jobs = {p}
       /\ upstream \in {[q \in Pollers |-> IF q = p THEN f ELSE [g \in SubIds(q) |-> <<>>]] :
                          f \in [SubIds(p) -> Answers(p)]}
       /\ goods_ids \in {[q \in Sources |-> IF q = p THEN c ELSE SubTargets(q)] :
                           c \in IF p \in Sources THEN Configurations(p) ELSE {<<>>}}

\* the steps that end an await of a cycle: a GET or a delivery returns or
\* raises
NextAwaited ==
  \/ \E i \in Instances : BiliSpawn(i)
  \/ \E p \in Sources, i \in Instances, ok \in BOOLEAN :
       \E g \in SubIds(p) : FetchReturn(p, i, g, ok)
  \/ \E p \in Sources, i \in Instances, ok \in BOOLEAN : Deliver(p, i, ok)

NextCycle ==
  \/ NextSources
  \/ NextFlat
  \/ \E i \in Instances : FlatRaise(i)

\* Every GET has its timeouts and every delivery returns or raises.
SpecCycle == InitCycle /\ [][NextCycle]_vars /\ WF_vars(NextAwaited)

\* ------------------------------------------------------------ bili after its first send
\* what every project of bili answered in the first cycle
BiliBaseline == <<BiliTicket("A", 2, "presale", 5)>>

\* what a project can answer now: the same, fewer left, sold out
BiliLater ==
  { BiliBaseline,
    <<BiliTicket("A", 2, "presale", 3)>>,
    <<BiliTicket("A", 4, "sold_out", 0)>> }

\* _bili_prev_status after a cycle that fetched BiliBaseline for every project
BiliBaselineStatus ==
  bili_collect(BILI_PROJECTS,
               [n \in 1..Len(BILI_PROJECTS) |-> [k |-> BILI_PROJECTS[n], v |-> Ok(BiliBaseline)]],
               TRUE, <<>>, NoLines).curr

\* The first cycle of bili fetched BiliBaseline for every project and sent it
\* 3 s ago; the projects now answer any of BiliLater.
InitBiliLater ==
  /\ clock = StartClock
  /\ prev_status = [p \in Sources |-> IF p = "bili" THEN BiliBaselineStatus ELSE <<>>]
  /\ first_run = [p \in Sources |-> p # "bili"]
  /\ last_send = [p \in Sources |-> IF p = "bili" THEN StartClock - SEND_INTERVAL_CHANGE_SEC
                                                   ELSE 0]
  /\ last_avail_push = [p \in Sources |-> 0]
  /\ next_index = [p \in Sources |-> 0]
  /\ job_lock = [p \in Sources |-> FALSE]
  /\ rebuild_lock = [p \in Sources |-> FALSE]
  /\ client = [p \in Sources |-> "open"]
  /\ task = [p \in Pollers |-> [i \in Instances |-> IdleTask]]
  /\ flat_last_avail_push = <<>>
  /\ flat_req = 0
  /\ ev = NoEv
  /\ goods_ids = [p \in Sources |-> SubTargets(p)]
  /\ enabled_groups = Groups
  /\ bots = BotIds
  /\ flat_prev = EmptyRes
  /\ flat_last_send = <<>>
  /\ jobs = {"bili"}
  /\ upstream \in {[q \in Pollers |-> IF q = "bili" THEN f ELSE [g \in SubIds(q) |-> <<>>]] :
                     f \in [SubIds("bili") -> BiliLater]}
  /\ req_count = [p \in Sources |-> IF p = "bili" THEN Len(BILI_PROJECTS) ELSE 0]

SpecBiliLater == InitBiliLater /\ [][NextSources \/ NextGroups]_vars

\* ------------------------------------------------------------ a change right after a send
Retrying == {"cpp", "bili"}

\* what cpp answered in the cycle that sent
CppBaseline == <<CppTicket("A", 3, 0)>>

\* _cpp_prev_map after that cycle
CppBaselineStatus == cpp_fetch_once(Ok(CppBaseline), TRUE, <<>>).curr

\* what the upstream of a poller answers from now on
Later(p) == IF p = "cpp" THEN CppPayloads ELSE BiliLater

\* cpp or bili has just sent its baseline, its client was rebuilt after that
\* cycle (the request counter is 0), and the upstream has moved to another
\* answer, which it keeps.
InitRetry ==
  /\ clock = StartClock
  /\ \E p \in Retrying :
       /\ jobs = {p}
       /\ prev_status = [q \in Sources |->
                           IF q # p THEN <<>>
                           ELSE IF p = "cpp" THEN CppBaselineStatus ELSE BiliBaselineStatus]
       /\ first_run = [q \in Sources |-> q # p]
       /\ last_send = [q \in Sources |-> IF q = p THEN StartClock ELSE 0]
       /\ upstream \in {[q \in Pollers |-> [g \in SubIds(q) |-> IF q = p THEN l ELSE <<>>]] :
                          l \in Later(p)}
  /\ last_avail_push = [q \in Sources |-> 0]
  /\ next_index = [q \in Sources |-> 0]
  /\ req_count = [q \in Sources |-> 0]
  /\ job_lock = [q \in Sources |-> FALSE]
  /\ rebuild_lock = [q \in Sources |-> FALSE]
  /\ client = [q \in Sources |-> "open"]
  /\ task = [q \in Pollers |-> [i \in Instances |-> IdleTask]]
  /\ goods_ids = [q \in Sources |-> SubTargets(q)]
  /\ enabled_groups = Groups
  /\ bots = BotIds
  /\ flat_prev = EmptyRes
  /\ flat_last_send = <<>>
  /\ flat_last_avail_push = <<>>
  /\ flat_req = 0
  /\ ev = NoEv

\* ticks keep firing as time advances: the last tick of the window comes
\* when the change interval has passed
RetryTick(p, i) ==
  /\ TickEnter(p, i)
  /\ \/ clock - last_send[p] >= SEND_INTERVAL_CHANGE_SEC
     \/ req_count[p] + 2 * Len(SubTargets(p)) <= MaxReq

\* every fetch succeeds
RetryAwaited ==
  \/ \E i \in Instances : BiliSpawn(i)
  \/ \E p \in Retrying, i \in Instances : \E g \in SubIds(p) : FetchReturn(p, i, g, TRUE)
  \/ \E p \in Retrying, i \in Instances, ok \in BOOLEAN : Deliver(p, i, ok)

NextRetry ==
  \/ \E p \in Retrying, i \in Instances : RetryTick(p, i)
  \/ RetryAwaited
  \/ \E t \in Instants : Advance(t)

\* time advances and ticks keep firing
SpecRetry == InitRetry /\ [][NextRetry]_vars /\ WF_vars(NextRetry)

\* ------------------------------------------------------------ the differ on its own
\* The items one block of the flat API can list: two names, a buyable and a
\* non-buyable status, a count that is missing, zero or positive.
DiffItems ==
  {Item(n, st, c) : n \in {"A", "B"}, st \in {"presale", "sold_out"},
                    c \in {Num(0), Num(5)}}
  \cup {ItemNoCount(n, st) : n \in {"A", "B"}, st \in {"presale", "sold_out"}}

\* the item lists of a block: up to two items of distinct names, either order
DiffItemLists ==
  {<<>>} \cup {<<a>> : a \in DiffItems}
  \cup {<<l[1], l[2]>> : l \in {m \in DiffItems \X DiffItems : m[1].name # m[2].name}}

\* the item lists an earlier tick has stored (a dict is looked up by key:
\* one order is enough)
DiffPrevLists == {l \in DiffItemLists : Len(l) = 2 => l[1].name = "A"}

\* the throttle key of ticket-re.py for activity aid of platform plat
flat_key(plat, aid) == IF plat \in {"cpp", "bili"} THEN <<plat, aid>> ELSE <<plat, "merged">>

\* ticket-re.py after an earlier tick has stored the items `before` of
\* activity 1 of one platform and sent for them 3 s ago; the API now lists
\* the items `now`.
InitDiff ==
  /\ InitCommon
  /\ enabled_groups = Groups
  /\ bots = BotIds
  /\ jobs = {"flat"}
  /\ req_count = [p \in Sources |-> 0]
  /\ \E plat \in {"bili", "xm"}, before \in DiffPrevLists, now \in DiffItemLists :
       /\ upstream = [q \in Pollers |->
                        IF q = "flat" THEN [g \in SubIds(q) |-> <<Block(plat, 1, now)>>]
                        ELSE [g \in SubIds(q) |-> <<>>]]
       /\ flat_prev = split_by_plat_and_id(IF before = <<>> THEN <<>>
                                           ELSE <<Block(plat, 1, before)>>, EmptyRes)
       /\ flat_last_send = IF before = <<>> THEN <<>>
                           ELSE <<[k |-> flat_key(plat, 1),
                                   v |-> StartClock - SEND_INTERVAL_CHANGE_SEC]>>

SpecDiff == InitDiff /\ [][NextFlat]_vars

\* ------------------------------------------------------------ ticket-re.py: a change right after a send
\* what activity 1 listed when its notification was sent
FlatBaselineItems == <<Item("A", "presale", Num(5))>>

\* what it lists from now on
FlatLaterItems ==
  { <<Item("A", "sold_out", Num(0))>>,
    <<Item("A", "presale", Num(0))>>,
    <<Item("A", "presale", Num(5))>>,
    <<Item("A", "presale", Num(5)), Item("B", "sold_out", Num(0))>> }

\* the platform the API lists in this behaviour
FlatPlat == upstream["flat"][API_TICKET][1].platform

\* ticket-re.py has just stored the baseline of activity 1 of one platform
\* and sent for its key; the API now lists other items, and keeps them.
InitFlatRetry ==
  /\ InitCommon
  /\ enabled_groups = Groups
  /\ bots = BotIds
  /\ jobs = {"flat"}
  /\ req_count = [p \in Sources |-> 0]
  /\ \E plat \in {"bili", "xm"}, now \in FlatLaterItems :
       /\ upstream = [q \in Pollers |->
                        IF q = "flat" THEN [g \in SubIds(q) |-> <<Block(plat, 1, now)>>]
                        ELSE [g \in SubIds(q) |-> <<>>]]
       /\ flat_prev = split_by_plat_and_id(<<Block(plat, 1, FlatBaselineItems)>>, EmptyRes)
       /\ flat_last_send = <<[k |-> flat_key(plat, 1), v |-> StartClock]>>

\* ticks keep firing as time advances: the last tick of the window comes
\* when the change interval has passed
FlatRetryTick(i) ==
  /\ FlatTick(i)
  /\ \/ clock - GetOr(flat_last_send, flat_key(FlatPlat, 1), 0) >= SEND_INTERVAL_CHANGE_SEC
     \/ flat_req + 2 <= MaxFlatReq

\* every fetch succeeds
NextFlatRetry ==
  \/ \E i \in Instances : FlatRetryTick(i)
  \/ \E i \in Instances : FlatFetchReturn(i, TRUE)
  \/ \E i \in Instances, ok \in BOOLEAN : FlatDeliver(i, ok)
  \/ \E t \in Instants : Advance(t)

SpecFlatRetry == InitFlatRetry /\ [][NextFlatRetry]_vars


\* ------------------------------------------------------------ broadcasts to several recipients
\* the bots that can be connected and the groups that can be subscribed when
\* a poller starts
BroadcastBots == {1, 2}
BroadcastGroups == {1, 2, 3}

\* A poller starts with any of these bots connected and any of these groups
\* subscribed.
InitBroadcast ==
  /\ InitCommon
  /\ enabled_groups \in SUBSET BroadcastGroups
  /\ bots \in SUBSET BroadcastBots
  /\ flat_prev = EmptyRes
  /\ flat_last_send = <<>>
  /\ \E p \in Pollers : jobs = {p} /\ upstream \in UpstreamsFor(p)
  /\ req_count = [p \in Sources |-> 0]

\* the timer of ticket-re.py fires when no tick of it is in flight
NextFlatSerial ==
  \/ FlatTick(1)
  \/ \E ok \in BOOLEAN : FlatFetchReturn(1, ok)
  \/ \E ok \in BOOLEAN : FlatDeliver(1, ok)

\* 9 s pass
AdvanceHeartbeat == Advance(StartClock + CONT_AVAIL_PUSH_MIN_INTERVAL_SEC)

SpecBroadcast == InitBroadcast /\ [][NextSources \/ NextFlatSerial \/ AdvanceHeartbeat]_vars

\* ------------------------------------------------------------ properties
\* the decisions the last step took (none when it took none)
Decisions(e) == IF e.type = "decide" THEN e.decisions ELSE <<>>

\* a cycle of ticket.py is in flight from taking the job lock to releasing it
InFlight == {"gather", "fetch", "send"}

\* the step leaves baseline, first-run flag and both throttle timestamps of
\* poller p as they were
KeptBaseline(p) ==
  /\ prev_status'[p] = prev_status[p]
  /\ first_run'[p] = first_run[p]
  /\ last_send'[p] = last_send[p]
  /\ last_avail_push'[p] = last_avail_push[p]

\* the step in which decision d of poller q's instance i was taken also sent
\* its message or left the instance awaiting the delivery
SentNow(q, i, d) ==
  IF q = "flat"
  THEN \/ /\ task'[q][i].pc = "send"
          /\ task'[q][i].key = d.key
          /\ task'[q][i].now = d.now
       \/ GetOr(flat_last_send', d.key, 0) = d.now
  ELSE \/ /\ task'[q][i].pc = "send"
          /\ task'[q][i].now = d.now
       \/ /\ last_send'[q] = d.now
          /\ ~first_run'[q]

\* the step in which decision d was taken sent nothing for its key and left
\* the key's last-send timestamp alone
NothingSent(q, i, d) ==
  IF q = "flat"
  THEN /\ ~(task'[q][i].pc = "send" /\ task'[q][i].key = d.key)
       /\ GetOr(flat_last_send', d.key, 0) = d.last_send
  ELSE /\ task'[q][i].pc # "send"
       /\ last_send'[q] = d.last_send

\* the heartbeat timestamp of decision d's key after the step
HeartbeatAfter(q, d) ==
  IF q = "flat" THEN GetOr(flat_last_avail_push', d.key, 0) ELSE last_avail_push'[q]

\* the step ends the broadcast instance i of poller q was awaiting
BroadcastReturns(q, i) ==
  /\ task[q][i].pc = "send"
  /\ task'[q][i] # task[q][i]
  /\ task'[q][i].pc = "send" => task'[q][i].pos # task[q][i].pos

\* the last-send timestamp of the key instance i of poller q sent for
LastSendAfter(q, i) ==
  IF q = "flat" THEN GetOr(flat_last_send', task[q][i].key, 0) ELSE last_send'[q]

\* C1 -- ticket.py: each of cpp, bili, xm, qg has at most one cycle in flight,
\* and a tick that finds the source's job lock held returns at once: it starts
\* no fetch and no send, and leaves baseline, first-run flag, throttle
\* timestamps, rotation cursor and request counter of the source unchanged.
C1_Step ==
  \A p \in Sources :
    /\ Cardinality({i \in Instances : task'[p][i].pc \in InFlight}) <= 1
    /\ (job_lock[p] /\ ev'.type = "tick" /\ ev'.poller = p) =>
         /\ ~ev'.entered
         /\ task' = task
         /\ KeptBaseline(p)
         /\ next_index'[p] = next_index[p]
         /\ req_count'[p] = req_count[p]
         /\ job_lock'[p]

C1_OneCycleInFlight == [][C1_Step]_vars

\* a tick of a source returned at once while a cycle of it awaited its
\* broadcast
C1_Witness ==
  /\ ev.type = "tick"
  /\ ~ev.entered
  /\ \E j \in Instances : task[ev.poller][j].pc = "send"

\* C2 -- ticket-re.py: the flat poller never has two ticks in flight at the
\* same time.
C2_FlatOneCycleInFlight ==
  Cardinality({i \in Instances : task["flat"][i].pc # "idle"}) <= 1

\* C3 -- ticket.py, cpp / xm / qg: a tick whose fetch fails sends nothing and
\* leaves the source's baseline, first-run flag and both throttle timestamps
\* as they were before the tick.
C3_Step ==
  \A p \in {"cpp", "xm", "qg"} :
    /\ (ev'.type = "tick" /\ ev'.poller = p) => KeptBaseline(p)
    /\ (ev'.type = "decide" /\ ev'.poller = p /\ ev'.decisions[1].failed # {}) =>
         /\ KeptBaseline(p)
         /\ task'[p][ev'.inst].pc # "send"
         /\ ~job_lock'[p]

C3_FailedFetchChangesNothing == [][C3_Step]_vars

\* a fetch failed after an earlier cycle had sent and stored a baseline,
\* with the change interval elapsed since
C3_Witness ==
  /\ ev.type = "decide"
  /\ ev.poller \in {"cpp", "xm", "qg"}
  /\ ev.decisions[1].failed # {}
  /\ prev_status[ev.poller] # <<>>
  /\ ~first_run[ev.poller]
  /\ ev.decisions[1].now - last_send[ev.poller] >= SEND_INTERVAL_CHANGE_SEC

\* C4 -- ticket-re.py: a tick whose fetch failed, with no other tick in
\* flight, leaves the baseline _prev untouched.
C4_Step ==
  (/\ ev'.type = "decide"
   /\ ev'.poller = "flat"
   /\ \E n \in 1..Len(ev'.decisions) : ev'.decisions[n].failed # {}
   /\ \A j \in Instances \ {ev'.inst} : task["flat"][j].pc = "idle")
  => flat_prev' = flat_prev

C4_FailedFetchKeepsPrev == [][C4_Step]_vars

\* the projects whose fetch failed in the bili cycle that decides or returns
\* from its broadcast in this step
BiliFailedNow ==
  {g \in SubIds("bili") :
     \/ /\ ev'.type = "decide"
        /\ ev'.poller = "bili"
        /\ g \in ev'.decisions[1].failed
     \/ \E i \in Instances :
          /\ task["bili"][i].pc = "send"
          /\ Has(task["bili"][i].got, g)
          /\ ~Get(task["bili"][i].got, g).ok}

\* C5 -- ticket.py, bili: the stored baseline of a project whose fetch failed
\* stays untouched, also when the cycle sends for another project's change.
C5_Step ==
  \A g \in BiliFailedNow :
    GetOr(prev_status'["bili"], g, <<>>) = GetOr(prev_status["bili"], g, <<>>)

C5_FailedProjectKeepsBaseline == [][C5_Step]_vars

\* C6 -- throttle rule 1, in every poller of both files: a decision with a
\* non-empty changed list sends if and only if now - last_send >= 3 s (30
\* tenths of a second), and the send sets the key's last_send to the now of
\* the decision, at once or when the awaited broadcast returns.
C6_Step ==
  /\ \A n \in 1..Len(Decisions(ev')) :
       LET d == ev'.decisions[n]
       IN d.chg # <<>> =>
            IF d.now - d.last_send >= 30
            THEN d.rule = "change" /\ SentNow(ev'.poller, ev'.inst, d)
            ELSE d.rule = "none" /\ NothingSent(ev'.poller, ev'.inst, d)
  /\ \A q \in Pollers, i \in Instances :
       (BroadcastReturns(q, i) /\ task[q][i].rule = "change") =>
          LastSendAfter(q, i) = task[q][i].now

C6_ChangeRule == [][C6_Step]_vars

\* a change decided exactly 3 s after the key's last send, and sent
C6_Witness ==
  /\ ev.type = "decide"
  /\ \E n \in 1..Len(ev.decisions) :
       /\ ev.decisions[n].chg # <<>>
       /\ ev.decisions[n].last_send > 0
       /\ ev.decisions[n].now - ev.decisions[n].last_send = 30
       /\ ev.decisions[n].rule = "change"

\* C7 -- throttle rule 2: a decision with an empty changed list and a
\* non-empty available list sends if and only if now - last_heartbeat >= 9 s
\* (90 tenths) and now - last_send >= 0.1 s (1 tenth); the send sets the
\* key's heartbeat timestamp and its last_send to now.  With both lists
\* empty nothing is sent and neither timestamp changes.
C7_Step ==
  /\ \A n \in 1..Len(Decisions(ev')) :
       LET d == ev'.decisions[n]
           q == ev'.poller
       IN d.chg = <<>> =>
            IF d.avail # <<>> /\ d.now - d.last_avail >= 90 /\ d.now - d.last_send >= 1
            THEN /\ d.rule = "heartbeat"
                 /\ SentNow(q, ev'.inst, d)
                 /\ HeartbeatAfter(q, d) = d.now
            ELSE /\ d.rule = "none"
                 /\ NothingSent(q, ev'.inst, d)
                 /\ HeartbeatAfter(q, d) = d.last_avail
  /\ \A q \in Pollers, i \in Instances :
       (BroadcastReturns(q, i) /\ task[q][i].rule = "heartbeat") =>
          LastSendAfter(q, i) = task[q][i].now

C7_HeartbeatRule == [][C7_Step]_vars

\* a heartbeat decided exactly 9 s after the key's last heartbeat
C7_Witness ==
  /\ ev.type = "decide"
  /\ \E n \in 1..Len(ev.decisions) :
       /\ ev.decisions[n].chg = <<>>
       /\ ev.decisions[n].avail # <<>>
       /\ ev.decisions[n].last_avail > 0
       /\ ev.decisions[n].now - ev.decisions[n].last_avail = 90
       /\ ev.decisions[n].rule = "heartbeat"

\* C8 -- exclusivity: a decision with a non-empty changed list never takes
\* the heartbeat path and never touches the heartbeat timestamp, whatever that
\* timestamp is; less than 3 s after last_send it sends nothing, also when a
\* heartbeat would be due.
C8_Step ==
  \A n \in 1..Len(Decisions(ev')) :
    LET d == ev'.decisions[n]
        q == ev'.poller
    IN d.chg # <<>> =>
         /\ d.rule # "heartbeat"
         /\ HeartbeatAfter(q, d) = d.last_avail
         /\ d.now - d.last_send < 30 => NothingSent(q, ev'.inst, d)

C8_ChangeNeverHeartbeat == [][C8_Step]_vars

\* a change with available lines, throttled by rule 1 at a moment when the
\* heartbeat conditions hold
C8_Witness ==
  /\ ev.type = "decide"
  /\ \E n \in 1..Len(ev.decisions) :
       /\ ev.decisions[n].chg # <<>>
       /\ ev.decisions[n].avail # <<>>
       /\ ev.decisions[n].now - ev.decisions[n].last_send < 30
       /\ ev.decisions[n].now - ev.decisions[n].last_send >= 1
       /\ ev.decisions[n].now - ev.decisions[n].last_avail >= 90
       /\ ev.decisions[n].rule = "none"

\* the keys of ticket-re.py's heartbeat dict before or after the step
FlatHeartbeatKeys ==
  {flat_last_avail_push[n].k : n \in 1..Len(flat_last_avail_push)}
  \cup {flat_last_avail_push'[n].k : n \in 1..Len(flat_last_avail_push')}

\* the step took, for poller q and key k, a decision with no changed line,
\* some available line and both intervals of rule 2 elapsed
HeartbeatDecided(q, k) ==
  /\ ev'.type = "decide"
  /\ ev'.poller = q
  /\ \E n \in 1..Len(ev'.decisions) :
       LET d == ev'.decisions[n]
       IN /\ d.key = k
          /\ d.chg = <<>>
          /\ d.avail # <<>>
          /\ d.now - d.last_avail >= 90
          /\ d.now - d.last_send >= 1
          /\ HeartbeatAfter(q, d) = d.now

\* C9 -- the heartbeat timestamp of a key changes only in a step that sends
\* through the heartbeat rule: not on a change-triggered send, a throttled
\* tick or a failed tick.
C9_Step ==
  /\ \A p \in Sources :
       last_avail_push'[p] # last_avail_push[p] => HeartbeatDecided(p, <<p>>)
  /\ \A k \in FlatHeartbeatKeys :
       GetOr(flat_last_avail_push', k, 0) # GetOr(flat_last_avail_push, k, 0)
         => HeartbeatDecided("flat", k)

C9_HeartbeatOnlyOnHeartbeat == [][C9_Step]_vars

\* a change-triggered send with available lines, for a key whose heartbeat
\* timestamp had been set before
C9_Witness ==
  /\ ev.type = "decide"
  /\ \E n \in 1..Len(ev.decisions) :
       /\ ev.decisions[n].rule = "change"
       /\ ev.decisions[n].avail # <<>>
       /\ ev.decisions[n].last_avail > 0

\* C10 -- ticket.py, xm / qg: throttle state is per goods id, so a goods id
\* for which nothing has been sent yet (no baseline stored for it: its own
\* last_send is still 0) is not throttled by the send for another goods id:
\* its changed lines are sent.
C10_Step ==
  \A p \in {"xm", "qg"} :
    (ev'.type = "decide" /\ ev'.poller = p) =>
       LET d == ev'.decisions[1]
           g == task[p][ev'.inst].goods_id
       IN (d.chg # <<>> /\ ~Has(prev_status[p], g)) => d.rule = "change"

C10_ThrottlePerGoodsId == [][C10_Step]_vars

\* C11 -- ticket.py, xm / qg: with N configured goods ids the cursor stays in
\* [0, N); a tick that runs a cycle fetches exactly the goods id at the cursor
\* and moves the cursor on by one modulo N, and no other step moves it
\* (neither a failed fetch, nor a send, nor a skipped tick): N consecutive
\* cycles fetch each goods id once.
C11_Step ==
  \A p \in {"xm", "qg"} :
    LET ids == SubTargets(p)
        N == Len(ids)
        c == next_index[p]
    IN /\ c \in 0..(N - 1)
       /\ next_index'[p] \in 0..(N - 1)
       /\ IF ev'.type = "tick" /\ ev'.poller = p /\ ev'.entered
          THEN /\ task'[p][ev'.inst].pc = "fetch"
               /\ task'[p][ev'.inst].goods_id = ids[c + 1]
               /\ task'[p][ev'.inst].pending = {ids[c + 1]}
               /\ next_index'[p] = (c + 1) % N
               /\ req_count'[p] = req_count[p] + 1
          ELSE next_index'[p] = c

C11_RotationFairness == [][C11_Step]_vars

\* the cursor of xm has wrapped: the second goods id is being fetched in a
\* cycle that follows one which sent nothing
C11_Witness ==
  /\ ev.type = "tick"
  /\ ev.poller = "xm"
  /\ ev.entered
  /\ task["xm"][ev.inst].goods_id = XM_GOODS_IDS[2]
  /\ next_index["xm"] = 0
  /\ first_run["xm"]

\* the platform a decision of ticket-re.py is for
DecisionPlat(d) == d.key[1]

\* the positions of the snapshot curr whose item is absent from prev, or has
\* another status, or another count
DiffersAt(prev, curr) ==
  {n \in 1..Len(curr) :
     \/ ~Has(prev, curr[n].k)
     \/ Get(prev, curr[n].k).status # curr[n].v.status
     \/ Get(prev, curr[n].k).count # curr[n].v.count}

\* the lines of the items of curr at the positions in S, in curr's order
LinesAt(plat, curr, S) ==
  [k \in 1..Cardinality(S) |->
     LET n == SetToSeq(S)[k] IN fmt_line(plat, curr[n].k, curr[n].v)]

\* C12 -- ticket-re.py, _diff(plat, prev, now): the changed list holds the
\* line of an item of now if and only if the item's key is absent from prev,
\* or its status differs from prev's, or its count differs from prev's, in
\* now's insertion order; when exactly one key differs, the changed list is
\* that key's line alone.
C12_Step ==
  (ev'.type = "decide" /\ ev'.poller = "flat") =>
    \A n \in 1..Len(ev'.decisions) :
      LET d == ev'.decisions[n]
          S == DiffersAt(d.prev, d.curr)
      IN /\ d.chg = LinesAt(DecisionPlat(d), d.curr, S)
         /\ Cardinality(S) = 1 => Len(d.chg) = 1

C12_DiffChangedIff == [][C12_Step]_vars

\* of two items, the second differs from the baseline in its count alone,
\* and the changed list is its line
C12_Witness ==
  /\ ev.type = "decide"
  /\ ev.poller = "flat"
  /\ \E n \in 1..Len(ev.decisions) :
       LET d == ev.decisions[n]
       IN /\ Len(d.curr) = 2
          /\ DiffersAt(d.prev, d.curr) = {2}
          /\ Has(d.prev, d.curr[2].k)
          /\ Get(d.prev, d.curr[2].k).status = d.curr[2].v.status
          /\ Len(d.chg) = 1

RECURSIVE Flatten(_)
\* the items of the maps of a dict of maps, in order
Flatten(m) == IF m = <<>> THEN <<>> ELSE Head(m).v \o Flatten(Tail(m))

\* the items of the snapshot of decision d of poller q
SnapshotItems(q, d) == IF q = "bili" THEN Flatten(d.curr) ELSE d.curr

\* the stored status v of poller q's snapshot stands for a ticket on sale
Buyable(q, v) ==
  CASE q = "cpp" -> v[1] = "buyable"
    [] q = "bili" -> v = "presale"
    [] q = "xm" -> v = "presale"
    [] q = "qg" -> v = <<"presale">>
    [] OTHER -> v.status \in BUYABLE_SET

\* the lines of the buyable items of decision d's snapshot, in its order
\* (name and status; for ticket-re.py the formatted line)
BuyableLines(q, d) ==
  LET items == SnapshotItems(q, d)
      S == {n \in 1..Len(items) : Buyable(q, items[n].v)}
  IN [k \in 1..Cardinality(S) |->
        LET n == SetToSeq(S)[k]
        IN IF q = "flat" THEN fmt_line(DecisionPlat(d), items[n].k, items[n].v)
           ELSE <<items[n].k, items[n].v>>]

\* the available lines of decision d, as name and status (for ticket-re.py
\* the formatted line)
AvailLines(q, d) ==
  [k \in 1..Len(d.avail) |->
     IF q = "flat" THEN d.avail[k] ELSE <<d.avail[k][1], d.avail[k][2]>>]

\* C13 -- idempotence: a diff of a snapshot against a baseline equal to it,
\* with the first-run flag false, gives no changed line and gives as
\* available lines exactly the lines of the snapshot's buyable items, in the
\* snapshot's order; in ticket-re.py (_diff) and in ticket.py (cpp, bili, xm,
\* qg).
C13_Step ==
  \A n \in 1..Len(Decisions(ev')) :
    LET d == ev'.decisions[n]
        q == ev'.poller
    IN (~d.first /\ d.prev = d.curr) =>
         /\ d.chg = <<>>
         /\ AvailLines(q, d) = BuyableLines(q, d)

C13_DiffIdempotent == [][C13_Step]_vars

\* xm diffed a snapshot with a buyable item against the equal baseline
C13_Witness ==
  /\ ev.type = "decide"
  /\ ev.poller = "xm"
  /\ LET d == ev.decisions[1]
     IN /\ ~d.first
        /\ d.prev = d.curr
        /\ d.avail # <<>>

\* the items of a baseline or snapshot m of poller q as (scope, key, value):
\* the scope is the project id for bili, whose dict holds one map per project
Entries(q, m) ==
  IF q = "bili"
  THEN UNION {{<<m[a].k, m[a].v[b].k, m[a].v[b].v>> : b \in 1..Len(m[a].v)} :
                a \in 1..Len(m)}
  ELSE {<<0, m[a].k, m[a].v>> : a \in 1..Len(m)}

\* the (scope, key) of the items of the baseline that the snapshot lacks
Removed(q, d) ==
  {<<e[1], e[2]>> : e \in Entries(q, d.prev)} \ {<<e[1], e[2]>> : e \in Entries(q, d.curr)}

\* the names on the changed and available lines of decision d
LineNames(d) ==
  {d.chg[k][1] : k \in 1..Len(d.chg)} \cup {d.avail[k][1] : k \in 1..Len(d.avail)}

\* C14 -- removed items are never reported, in both files: every changed and
\* every available line is the line of an item of the current snapshot, so a
\* key that only the baseline holds yields no line; and a decision whose
\* snapshot differs from the baseline only by removed keys has no changed
\* line and sends no change notification.
C14_Step ==
  \A n \in 1..Len(Decisions(ev')) :
    LET d == ev'.decisions[n]
        q == ev'.poller
    IN /\ LineNames(d) \subseteq {e[2] : e \in Entries(q, d.curr)}
       /\ (Removed(q, d) # {} /\ Entries(q, d.curr) \subseteq Entries(q, d.prev)) =>
            /\ d.chg = <<>>
            /\ d.rule # "change"
            /\ d.rule = "none" => NothingSent(q, ev'.inst, d)

C14_RemovedNeverReported == [][C14_Step]_vars

\* cpp: the payload lost a ticket of the baseline and kept the other as it
\* was, more than 3 s after the last send
C14_Witness ==
  /\ ev.type = "decide"
  /\ ev.poller = "cpp"
  /\ LET d == ev.decisions[1]
     IN /\ Removed("cpp", d) # {}
        /\ d.curr # <<>>
        /\ Entries("cpp", d.curr) \subseteq Entries("cpp", d.prev)
        /\ d.now - d.last_send >= SEND_INTERVAL_CHANGE_SEC
        /\ d.failed = {}

\* name and status on each line of a list of lines
NameStatus(lines) == [k \in 1..Len(lines) |-> <<lines[k][1], lines[k][2]>>]

\* name and status of each item of decision d's snapshot, in its order
AllLines(q, d) ==
  LET items == SnapshotItems(q, d)
  IN [k \in 1..Len(items) |-> <<items[k].k, items[k].v>>]

\* the task of instance i of source p as the step that decides has it: the
\* last fetch returned, failed when decision d says so
DecidingTask(p, i, d) ==
  LET g == CHOOSE x \in task[p][i].pending : TRUE
      r == IF g \in d.failed THEN Failure ELSE Ok(upstream[p][g])
  IN [task[p][i] EXCEPT !.got = Put(@, g, r)]

\* the baselines source p can have stored: none, or the snapshot of answers
\* of its upstream
Baselines(p) ==
  {<<>>} \cup
  {fetched_with(p, [IdleTask EXCEPT !.goods_id = g,
                                    !.got = [n \in 1..Len(SubTargets(p)) |->
                                               [k |-> SubTargets(p)[n], v |-> Ok(f[SubTargets(p)[n]])]]],
                TRUE, <<>>).curr
     : f \in [SubIds(p) -> Payloads(p)], g \in SubIds(p)}

\* C15 -- ticket.py, first-run flood: a decision taken while the source's
\* first-run flag is true has every item of the fetched snapshot on its
\* changed list, in the snapshot's order, and would have it with any
\* baseline stored; when it sends, the notification lists every item.
C15_Step ==
  \A p \in Sources :
    (ev'.type = "decide" /\ ev'.poller = p /\ ev'.decisions[1].first) =>
      LET d == ev'.decisions[1]
          t == DecidingTask(p, ev'.inst, d)
      IN /\ NameStatus(d.chg) = AllLines(p, d)
         /\ \A b \in Baselines(p) :
              fetched_with(p, t, TRUE, IF Rotating(p) /\ b # <<>>
                                       THEN <<[k |-> t.goods_id, v |-> b]>> ELSE b).chg = d.chg
         /\ d.rule # "none" =>
              SeqRange(AllLines(p, d)) \subseteq SeqRange(NameStatus(d.text[2]))

C15_FirstRunFlood == [][C15_Step]_vars

\* the first notification of cpp: two tickets, one buyable and one not yet
\* open, both listed
C15_Witness ==
  /\ ev.type = "decide"
  /\ ev.poller = "cpp"
  /\ LET d == ev.decisions[1]
     IN /\ d.first
        /\ Len(d.curr) = 2
        /\ Len(d.chg) = 2
        /\ d.avail # <<>>
        /\ d.rule = "change"

\* the step ends a cycle of source p: the job lock is released
CycleEnds(p) == job_lock[p] /\ ~job_lock'[p]

\* the sub-targets whose fetch failed in the cycle of source p that the step
\* ends
FailedInCycle(p) ==
  IF ev'.type = "decide" /\ ev'.poller = p
  THEN ev'.decisions[1].failed
  ELSE UNION {{task[p][i].got[n].k : n \in {m \in 1..Len(task[p][i].got) :
                                                ~task[p][i].got[m].v.ok}} :
                i \in {j \in Instances : task[p][j].pc = "send"}}

\* the sub-targets fetched in the cycle of source p that the step ends
FetchedInCycle(p) ==
  IF Rotating(p)
  THEN {task[p][i].goods_id : i \in {j \in Instances : task[p][j].pc \in {"fetch", "send"}}}
  ELSE SubIds(p)

\* C16 -- ticket.py: the first-run flag of a source is true from start-up,
\* is false once the first tick of the source whose fetch succeeded has
\* completed, never becomes true again, and is left true by a tick whose
\* fetch failed.
C16_Step ==
  \A p \in Sources :
    /\ ~first_run[p] => ~first_run'[p]
    /\ first_run'[p] # first_run[p] => CycleEnds(p)
    /\ (CycleEnds(p) /\ FailedInCycle(p) = {}) => ~first_run'[p]
    /\ (CycleEnds(p) /\ FailedInCycle(p) = FetchedInCycle(p)) => first_run'[p] = first_run[p]

C16_FirstRunUntilSuccess == [][C16_Step]_vars

\* the position at which x is first seen in seq
FirstPos(seq, x) == CHOOSE n \in 1..Len(seq) : seq[n] = x /\ \A m \in 1..(n - 1) : seq[m] # x

\* the name a notification's title starts with: the source, or the platform
\* of ticket-re.py's key
TitleName(q, d) == IF q = "flat" THEN DecisionPlat(d) ELSE q

\* C17 -- every notification, in both files, is the title line, then the
\* changed lines followed by the available lines not yet listed (each
\* distinct line once, in the order first seen in changed + available), then
\* the timestamp line; a line that is both changed and available is there
\* once.
C17_Step ==
  \A n \in 1..Len(Decisions(ev')) :
    LET d == ev'.decisions[n]
        q == ev'.poller
        all == d.chg \o d.avail
        L == d.text[2]
    IN d.rule # "none" =>
         /\ Len(d.text) = 3
         /\ d.text[1][1] = TitleName(q, d)
         /\ d.text[3] = d.now
         /\ SeqRange(L) = SeqRange(all)
         /\ \A a, b \in 1..Len(L) :
              a < b => L[a] # L[b] /\ FirstPos(all, L[a]) < FirstPos(all, L[b])
         /\ task'[q][ev'.inst].pc = "send" /\ task'[q][ev'.inst].now = d.now
              /\ (q = "flat" => task'[q][ev'.inst].key = d.key)
              => task'[q][ev'.inst].text = d.text

C17_NotificationFormat == [][C17_Step]_vars

\* a notification with a changed line that is not available followed by an
\* available line that did not change
C17_Witness ==
  /\ ev.type = "decide"
  /\ \E n \in 1..Len(ev.decisions) :
       LET d == ev.decisions[n]
       IN /\ d.rule = "change"
          /\ d.avail # <<>>
          /\ SeqRange(d.avail) \cap SeqRange(d.chg) = {}
          /\ d.text[2] = d.chg \o d.avail

\* the (bot, group) pairs of a list of delivery attempts
Pairs(log) == [k \in 1..Len(log) |-> <<log[k].bot, log[k].gid>>]

\* the step makes a delivery attempt
Attempts(e) == e.type \in {"deliver", "decide"} /\ e.log # <<>>

\* safe_broadcast awaits no delivery when the text is empty, when no group is
\* subscribed or when no bot is connected
NoAttemptWhenEmpty ==
  \A G \in SUBSET BroadcastGroups, B \in SUBSET BroadcastBots :
    /\ broadcast_start(<<>>, G, B).bots_left = <<>>
    /\ broadcast_start(<<"text">>, {}, B).bots_left = <<>>
    /\ broadcast_start(<<"text">>, G, {}).bots_left = <<>>

\* C18 -- safe_broadcast of both files: with any bots connected and any
\* groups subscribed, and whichever deliveries fail, the broadcast attempts
\* each (bot, group) pair exactly once, so every pair that does not fail is
\* delivered to, and it returns to the tick, which goes on; with no group
\* subscribed, no bot connected or an empty text there is no attempt.
C18_Step ==
  /\ \A q \in Pollers, i \in Instances :
       LET t == task[q][i]
       IN t.pc = "send" =>
            /\ enabled_groups # {} /\ bots # {} /\ t.text # <<>>
            /\ task'[q][i] # t =>
                 /\ Attempts(ev') /\ ev'.poller = q /\ ev'.inst = i
                 /\ Len(ev'.log) = Len(t.log) + 1
                 /\ ev'.done <=> Len(ev'.log) = Cardinality(bots \X enabled_groups)
                 /\ SeqRange(Pairs(ev'.log)) \subseteq bots \X enabled_groups
                 /\ \A a, b \in 1..Len(ev'.log) :
                      a # b => Pairs(ev'.log)[a] # Pairs(ev'.log)[b]
                 /\ ev'.done => /\ SeqRange(Pairs(ev'.log)) = bots \X enabled_groups
                                /\ LastSendAfter(q, i) = t.now
  /\ NoAttemptWhenEmpty

C18_PartialDeliveryIsolation == [][C18_Step]_vars

\* a broadcast to three groups returned after the delivery to the second
\* group had failed and the deliveries to the first and third had succeeded
C18_Witness ==
  /\ Attempts(ev)
  /\ ev.done
  /\ Cardinality(enabled_groups) = 3
  /\ \E k \in 1..(Len(ev.log) - 2) :
       /\ ev.log[k].bot = ev.log[k + 2].bot
       /\ ev.log[k].ok
       /\ ~ev.log[k + 1].ok
       /\ ev.log[k + 2].ok

\* after the step the baseline of poller q for the decision's key (goods id
\* g for xm and qg) is the snapshot curr
SnapshotStored(q, key, g, curr) ==
  CASE q = "flat" ->
         IF key[1] \in {"cpp", "bili"}
         THEN GetOr(flat_prev'[key[1]], key[2], <<>>) = curr
         ELSE merge_view(flat_prev'[key[1]]).merged = curr
    [] Rotating(q) -> GetOr(prev_status'[q], g, <<>>) = curr
    [] OTHER -> prev_status'[q] = curr

\* after the step the throttle state of source p is that of a send decided
\* at `now` by `rule`, and the baseline is the snapshot curr
SendKept(p, now, rule, g, curr) ==
  /\ last_send'[p] = now
  /\ rule = "heartbeat" => last_avail_push'[p] = now
  /\ SnapshotStored(p, <<p>>, g, curr)
  /\ ~first_run'[p]

\* the same for key `key` of ticket-re.py, whose baseline is written when
\* the tick ends
FlatSendKept(key, now, rule) ==
  /\ GetOr(flat_last_send', key, 0) = now
  /\ rule = "heartbeat" => GetOr(flat_last_avail_push', key, 0) = now

\* C19 -- a send decision is never rolled back: when the tick that decided
\* to send goes on after its broadcast (all deliveries succeeded, some or all
\* failed, or there was no recipient), last_send is the now of the decision,
\* the heartbeat timestamp too on the heartbeat path, and the baseline the
\* tick leaves is its snapshot.
C19_Step ==
  /\ \A p \in Sources, i \in Instances :
       LET t == task[p][i]
       IN /\ (/\ ev'.type = "decide" /\ ev'.poller = p /\ ev'.inst = i
               /\ ev'.decisions[1].rule # "none"
               /\ task'[p][i].pc # "send") =>
                LET d == ev'.decisions[1]
                IN SendKept(p, d.now, d.rule, t.goods_id, d.curr)
          /\ (t.pc = "send" /\ task'[p][i].pc # "send") =>
                SendKept(p, t.now, t.rule, t.goods_id, t.curr)
  /\ \A i \in Instances :
       LET t == task["flat"][i]
           t2 == task'["flat"][i]
       IN /\ (ev'.type = "decide" /\ ev'.poller = "flat" /\ ev'.inst = i) =>
               \A n \in 1..Len(ev'.decisions) :
                 LET d == ev'.decisions[n]
                 IN (d.rule # "none" /\ ~(t2.pc = "send" /\ t2.key = d.key)) =>
                      /\ FlatSendKept(d.key, d.now, d.rule)
                      /\ t2.pc = "idle" => SnapshotStored("flat", d.key, 0, d.curr)
          /\ (t.pc = "send" /\ BroadcastReturns("flat", i)) =>
               /\ FlatSendKept(t.key, t.now, t.rule)
               /\ t2.pc = "idle" => flat_prev' = t.curr

C20_RebuildNeverRacesFetch ==
  \A p \in Sources :
    client[p] = "closing" => \A i \in Instances : task[p][i].pc # "fetch"

\* the rebuild of a source's client: waiting for the rebuild lock, or inside
\* aclose()
Rebuilding == {"wait_rebuild", "closing"}

\* C21 -- ticket.py: a cycle that ends with the source's request counter at
\* or above REBUILD_THRESHOLD goes on to rebuild the client (and one that ends
\* below it does not); the rebuild ends with a new client and the counter at
\* zero, and every rebuild started does end.  The rebuild does not hold the
\* job lock: a tick that arrives during it, with no cycle in flight, enters.
C21_Step ==
  \A p \in Sources :
    /\ (job_lock[p] /\ ~job_lock'[p]) =>
         \E i \in Instances :
           /\ task[p][i].pc \in InFlight
           /\ IF req_count'[p] >= REBUILD_THRESHOLD
              THEN task'[p][i].pc \in Rebuilding
              ELSE task'[p][i].pc = "idle"
    /\ \A i \in Instances :
         /\ (task[p][i].pc \in Rebuilding /\ task'[p][i].pc \notin Rebuilding) =>
              /\ task[p][i].pc = "closing"
              /\ task'[p][i].pc = "idle"
              /\ client'[p] = "open"
              /\ req_count'[p] = 0
         /\ (task[p][i].pc = "closing" /\ task'[p][i].pc \in Rebuilding) =>
              task'[p][i].pc = "closing" /\ client'[p] = "closing"
    /\ ((\E i \in Instances : task[p][i].pc \in Rebuilding)
        /\ ~job_lock[p] /\ ev'.type = "tick" /\ ev'.poller = p) =>
         /\ ev'.entered
         /\ job_lock'[p]
         /\ \E i \in Instances : task[p][i].pc = "idle" /\ task'[p][i].pc \in InFlight

Acting(q) ==
  \/ task'[q] # task[q]
  \/ ev'.type = "tick" /\ ev'.poller = q

\* the step leaves everything source p owns as it was
KeptSource(p) ==
  /\ KeptBaseline(p)
  /\ next_index'[p] = next_index[p]
  /\ req_count'[p] = req_count[p]
  /\ client'[p] = client[p]
  /\ job_lock'[p] = job_lock[p]
  /\ rebuild_lock'[p] = rebuild_lock[p]
  /\ task'[p] = task[p]

\* C22 -- ticket.py: a step of one source's job leaves baseline, first-run
\* flag, throttle timestamps, rotation cursor, request counter, client and
\* locks of every other source unchanged, and a tick of a source enters its
\* cycle exactly when that source's own job lock is free, whatever job lock or
\* rebuild lock of another source is held.
C22_Step ==
  \A q \in Sources :
    Acting(q) =>
      /\ \A p \in Sources \ {q} : KeptSource(p)
      /\ (ev'.type = "tick" /\ ev'.poller = q) =>
           /\ ev'.entered <=> ~job_lock[q]
           /\ ev'.entered => task'[q][ev'.inst].pc \in InFlight

C22_SourcesIndependent == [][C22_Step]_vars

\* a tick of one source has entered its cycle while another source was in a
\* cycle and in a rebuild
C22_Witness ==
  /\ ev.type = "tick"
  /\ ev.entered
  /\ \E p \in Sources \ {ev.poller} :
       /\ job_lock[p]
       /\ rebuild_lock[p]
       /\ \E i \in Instances : task[p][i].pc = "send"

\* a cycle is over for the instance that ran it
Done == {"idle", "wait_rebuild", "closing"}

\* C23 -- ticket.py: a cycle goes from idle to its fetches, from its fetches
\* to its one send or to its end, and from its send to its end, never back;
\* the job lock is held exactly while the cycle is in flight and is released
\* when the cycle ends, when it raises, and at once when the tick of xm or qg
\* finds no goods id configured (that tick counts no request, starts no
\* fetch and no send); a job lock that is held is released in the end.
C23_Step ==
  \A p \in Sources :
    /\ \A i \in Instances :
         LET a == task[p][i].pc
             b == task'[p][i].pc
         IN /\ a = "idle" => b \in {"idle", "gather", "fetch"}
            /\ a = "gather" => b \in {"gather", "fetch"}
            /\ a = "fetch" => b \in {"fetch", "send"} \cup Done
            /\ a = "send" => /\ b \in {"send"} \cup Done
                             /\ b = "send" => task'[p][i].text = task[p][i].text
            /\ (a \in InFlight /\ b \notin InFlight) => ~job_lock'[p]
            /\ (a \notin InFlight /\ b \in InFlight) => ~job_lock[p] /\ job_lock'[p]
    /\ (ev'.type = "tick" /\ ev'.poller = p /\ ev'.entered /\ goods_ids[p] = <<>>) =>
         /\ task' = task
         /\ ~job_lock'[p]
         /\ req_count'[p] = req_count[p]
         /\ next_index'[p] = next_index[p]
         /\ KeptBaseline(p)
    /\ (ev'.type = "raise" /\ ev'.poller = p) =>
         /\ job_lock[p]
         /\ ~job_lock'[p]
         /\ \A i \in Instances : task'[p][i].pc = "idle"

C23_CycleReturnsToIdle ==
  /\ [][C23_Step]_vars
  /\ [](\A p \in Sources : job_lock[p] <=> \E i \in Instances : task[p][i].pc \in InFlight)
  /\ \A p \in Sources : job_lock[p] ~> ~job_lock[p]

\* the cycle of qg has raised on its payload and the job lock is free again
C23_Witness ==
  /\ ev.type = "raise"
  /\ ev.poller \in Sources
  /\ ~job_lock[ev.poller]
  /\ \A i \in Instances : task[ev.poller][i].pc = "idle"

\* a tick of xm or qg has found no goods id configured
C23_WitnessNoGoods ==
  /\ ev.type = "tick"
  /\ ev.entered
  /\ ev.poller \in Sources
  /\ goods_ids[ev.poller] = <<>>

\* C24 -- no exception leaves a tick function: a cycle whose 200 response has
\* not the expected shape, or carries a status code that is no number, ends
\* like a cycle without data.
C24_Step == ev'.type # "raise"

C24_NoTickRaises == [][C24_Step]_vars

\* the label the mapping of qg is to give for a raw button_status: the fixed
\* one for the codes 1 to 4, the generic one carrying the code otherwise
QgLabels(code) ==
  IF code = Num(1) THEN {<<"not_open">>}
  ELSE IF code = Num(2) THEN {<<"sold_out">>}
  ELSE IF code = Num(3) THEN {<<"presale">>}
  ELSE IF code = Num(4) THEN {<<"stopped">>}
  ELSE IF code[1] = "numeral" THEN {qg_status_name(Num(code[2])), <<"status", code>>}
  ELSE {<<"status", code>>}

\* C25 -- qg: _qg_status_name gives a label for every raw button_status and
\* never fails; whenever a GET of qg returns a payload, the cycle goes on to
\* its decision with each venue stored under the label of its code.
C25_Step ==
  \A i \in Instances :
    (task["qg"][i].pc = "fetch" /\ task'["qg"][i].pc # "fetch") =>
      /\ ev'.type = "decide"
      /\ ev'.decisions[1].failed = {} =>
           LET venue_list == upstream["qg"][task["qg"][i].goods_id]
           IN \A n \in 1..Len(venue_list) :
                /\ Has(ev'.decisions[1].curr, venue_list[n].name)
                /\ Get(ev'.decisions[1].curr, venue_list[n].name)
                     \in QgLabels(venue_list[n].button_status)

C25_QgStatusTotal == [][C25_Step]_vars

\* a stored count with None read as 0
CountOrZero(c) == IF c = <<>> THEN 0 ELSE c[1]

\* C26 -- ticket-re.py: the normalizer stores 0 for a count that is missing
\* or no number, so an item whose status is the baseline's and whose count
\* is the baseline's up to missing-versus-0 is not in the changed list.
C26_Step ==
  (ev'.type = "decide" /\ ev'.poller = "flat") =>
    \A k \in 1..Len(ev'.decisions) :
      LET d == ev'.decisions[k]
      IN \A n \in 1..Len(d.curr) :
           LET name == d.curr[n].k
               cur == d.curr[n].v
           IN /\ cur.count # <<>>
              /\ (/\ Has(d.prev, name)
                  /\ Get(d.prev, name).status = cur.status
                  /\ CountOrZero(Get(d.prev, name).count) = CountOrZero(cur.count)) =>
                   fmt_line(DecisionPlat(d), name, cur) \notin SeqRange(d.chg)

C26_MissingCountIsZero == [][C26_Step]_vars

\* C27 -- bili: while the baseline is the one the first cycle stored (every
\* project answered BiliBaseline), a ticket fetched with the baseline's
\* display name and another count is in the changed list.
C27_Step ==
  (/\ ev'.type = "decide"
   /\ ev'.poller = "bili"
   /\ prev_status["bili"] = BiliBaselineStatus
   /\ last_send["bili"] = StartClock - SEND_INTERVAL_CHANGE_SEC) =>
    LET d == ev'.decisions[1]
    IN \A pid \in SubIds("bili") \ d.failed :
         \A n \in 1..Len(upstream["bili"][pid]) :
           LET ticket == upstream["bili"][pid][n]
               was == BiliBaseline[1]
           IN (/\ ticket.name = was.name
               /\ ticket.display_name = was.display_name
               /\ ticket.num # was.num) =>
                <<ticket.name, ticket.display_name, ticket.num>> \in SeqRange(d.chg)

C27_BiliCountChangeReported == [][C27_Step]_vars

\* the step ends a cycle of source p that decided to send: its broadcast has
\* returned, or had no recipient
SendDone(p) ==
  \/ /\ ev'.type = "decide"
     /\ ev'.poller = p
     /\ ev'.decisions[1].rule # "none"
     /\ task'[p][ev'.inst].pc # "send"
  \/ /\ ev'.type = "deliver"
     /\ ev'.poller = p
     /\ ev'.done

\* the snapshot that cycle fetched
SnapshotOf(p) ==
  IF ev'.type = "decide" THEN ev'.decisions[1].curr ELSE task[p][ev'.inst].curr

\* C28 -- ticket.py: the baseline of a source is written only by the step
\* that ends a cycle which decided to send, and is then the snapshot that
\* cycle fetched: the whole baseline for cpp and bili, the entry of the goods
\* id polled for xm and qg, whose other entries stay as they were.
C28_Step ==
  \A p \in Sources :
    IF SendDone(p)
    THEN IF Rotating(p)
         THEN LET gid == task[p][ev'.inst].goods_id
              IN /\ Has(prev_status'[p], gid)
                 /\ Get(prev_status'[p], gid) = SnapshotOf(p)
                 /\ \A g \in SubIds(p) \ {gid} :
                      /\ Has(prev_status'[p], g) <=> Has(prev_status[p], g)
                      /\ Has(prev_status[p], g) =>
                           Get(prev_status'[p], g) = Get(prev_status[p], g)
         ELSE prev_status'[p] = SnapshotOf(p)
    ELSE prev_status'[p] = prev_status[p]

C28_BaselineOnlyOnSend == [][C28_Step]_vars

\* xm has stored a snapshot for each goods id: the send for the second left
\* the entry of the first in place
C28_Witness ==
  /\ ev.type = "deliver"
  /\ ev.done
  /\ ev.poller = "xm"
  /\ Len(prev_status["xm"]) = 2
  /\ prev_status["xm"][1].v # <<>>
  /\ prev_status["xm"][2].v # prev_status["xm"][1].v

\* the lines of the tickets poller p's upstream lists whose status is not the
\* one the baseline holds for them
PendingLines(p) ==
  IF p = "cpp"
  THEN LET list == upstream[p][CPP_EVENT_ID]
       IN {<<list[n].ticketName, cpp_status_label(list[n].remainderNum, list[n].openTimer)>> :
             n \in {m \in 1..Len(list) :
                      \/ ~Has(prev_status[p], list[m].id)
                      \/ Get(prev_status[p], list[m].id)
                           # cpp_status_label(list[m].remainderNum, list[m].openTimer)}}
  ELSE UNION {LET list == upstream[p][pid]
                  prev == GetOr(prev_status[p], pid, <<>>)
              IN {<<list[n].name, list[n].display_name, list[n].num>> :
                    n \in {m \in 1..Len(list) :
                             \/ ~Has(prev, list[m].name)
                             \/ Get(prev, list[m].name) # list[m].display_name}} :
              pid \in SubIds(p)}

\* the lines of poller p's upstream whose status is not the one of the
\* baseline InitRetry starts from
ChangedLines(p) ==
  IF p = "cpp"
  THEN LET list == upstream[p][CPP_EVENT_ID]
       IN {<<list[n].ticketName, cpp_status_label(list[n].remainderNum, list[n].openTimer)>> :
             n \in {m \in 1..Len(list) :
                      \/ ~Has(CppBaselineStatus, list[m].id)
                      \/ Get(CppBaselineStatus, list[m].id)
                           # cpp_status_label(list[m].remainderNum, list[m].openTimer)}}
  ELSE UNION {LET list == upstream[p][pid]
                  prev == GetOr(BiliBaselineStatus, pid, <<>>)
              IN {<<list[n].name, list[n].display_name, list[n].num>> :
                    n \in {m \in 1..Len(list) :
                             \/ ~Has(prev, list[m].name)
                             \/ Get(prev, list[m].name) # list[m].display_name}} :
              pid \in SubIds(p)}

\* a ticket of a polled source differs from the baseline and no notification
\* of that source is being delivered
ChangePending ==
  \E p \in jobs \cap Retrying :
    /\ ~first_run[p]
    /\ PendingLines(p) # {}
    /\ \A i \in Instances : task[p][i].pc # "send"

\* the last step decided a change notification that lists every ticket that
\* differed from the baseline
SentAsChanged ==
  /\ ev.type = "decide"
  /\ ev.poller \in Retrying
  /\ ev.decisions[1].rule = "change"
  /\ ChangedLines(ev.poller) # {}
  /\ ChangedLines(ev.poller) \subseteq SeqRange(ev.decisions[1].chg)
  /\ ChangedLines(ev.poller) \subseteq SeqRange(ev.decisions[1].text[2])

\* C29 -- cpp and bili: once the status of a ticket differs from the
\* baseline, the upstream keeps it, every fetch succeeds and ticks keep
\* firing as time advances, a change notification listing the ticket is
\* decided in the end, also when the first cycles that saw the change were
\* throttled.
C29_ThrottledChangeRetried == ChangePending ~> SentAsChanged

\* a change notification is decided after an earlier cycle of this window
\* saw the same change and was throttled
C29_Witness ==
  /\ ev.type = "decide"
  /\ ev.poller \in Retrying
  /\ ev.decisions[1].rule = "change"
  /\ ev.decisions[1].last_send = StartClock
  /\ ev.decisions[1].now >= StartClock + SEND_INTERVAL_CHANGE_SEC
  /\ req_count[ev.poller] >= 2 * Len(SubTargets(ev.poller))

\* the view of activity 1 the differ of ticket-re.py is given for the items
\* of a block of FlatPlat
FlatView(items) ==
  LET res == split_by_plat_and_id(<<Block(FlatPlat, 1, items)>>, EmptyRes)
  IN IF FlatPlat \in {"cpp", "bili"} THEN GetOr(res[FlatPlat], 1, <<>>)
     ELSE merge_view(res[FlatPlat]).merged

\* the lines of the items whose status or count is not the one of the
\* baseline InitFlatRetry starts from
FlatChanged ==
  diff(FlatPlat, FlatView(FlatBaselineItems),
       FlatView(upstream["flat"][API_TICKET][1].items)).chg

\* C30 -- ticket-re.py: a change a tick first sees while its key is
\* throttled is not lost: with the upstream keeping the new status and every
\* fetch succeeding, a tick that decides on the key when 3 s have passed
\* since its last notification, none having been sent since the change,
\* sends one that lists every changed item.
C30_FlatThrottledChangeNotLost ==
  (ev.type = "decide" /\ ev.poller = "flat" /\ FlatChanged # <<>>)
  => \A n \in 1..Len(ev.decisions) :
       (/\ ev.decisions[n].key = flat_key(FlatPlat, 1)
        /\ ev.decisions[n].last_send = StartClock
        /\ ev.decisions[n].now - ev.decisions[n].last_send >= SEND_INTERVAL_CHANGE_SEC)
       => /\ ev.decisions[n].rule # "none"
          /\ SeqRange(FlatChanged) \subseteq SeqRange(ev.decisions[n].text[2])

\* instance i of the tick of ticket-re.py awaits the broadcast of a change
\* notification it decided for key at time now
FlatChangeInFlight(i, key, now) ==
  /\ task["flat"][i].pc = "send"
  /\ task["flat"][i].rule = "change"
  /\ task["flat"][i].key = key
  /\ task["flat"][i].now = now

\* C31 -- ticket-re.py: for one key, two change notifications are never
\* issued less than 3 s apart, also when two instances of the tick overlap
\* around the awaited broadcast: no two instances are delivering change
\* notifications of the same key decided less than 3 s from each other.
C31_FlatChangeSendsApart ==
  \A i, j \in Instances : \A a, b \in Instants :
    (/\ i # j
     /\ FlatChangeInFlight(i, flat_key(FlatPlat, 1), a)
     /\ FlatChangeInFlight(j, flat_key(FlatPlat, 1), b))
    => (a - b >= SEND_INTERVAL_CHANGE_SEC \/ b - a >= SEND_INTERVAL_CHANGE_SEC)

\* the least time between a send decided by `rule` and an earlier send
\* decided by `earlier`
MinGap(rule, earlier) ==
  IF rule = "change" THEN SEND_INTERVAL_CHANGE_SEC
  ELSE IF earlier = "heartbeat" THEN CONT_AVAIL_PUSH_MIN_INTERVAL_SEC
  ELSE MIN_SEND_GAP

\* C32 -- ticket.py: over the ticks of one source, a change send is decided
\* at least 3 s after the source's previous send of either kind, a heartbeat
\* at least 9 s after the previous heartbeat, and any two sends at least
\* 0.1 s apart. _x_last_send is the time of the previous send (it is written
\* when a send ends, with the time of its decision, and by nothing else),
\* _x_last_avail_push the time of the previous heartbeat, and no send is
\* decided while another of the source is still being delivered.
C32_Step ==
  \A p \in Sources :
    /\ (ev'.type = "decide" /\ ev'.poller = p /\ ev'.decisions[1].rule # "none") =>
         LET d == ev'.decisions[1]
         IN /\ d.now - last_send[p] >= MIN_SEND_GAP
            /\ d.rule = "change" => d.now - last_send[p] >= SEND_INTERVAL_CHANGE_SEC
            /\ d.rule = "heartbeat" =>
                 d.now - last_avail_push[p] >= CONT_AVAIL_PUSH_MIN_INTERVAL_SEC
            /\ \A j \in Instances \ {ev'.inst} :
                 task[p][j].pc = "send" =>
                   d.now - task[p][j].now >= MinGap(d.rule, task[p][j].rule)
    /\ last_send'[p] =
         IF SendDone(p)
         THEN (IF ev'.type = "decide" THEN ev'.decisions[1].now ELSE task[p][ev'.inst].now)
         ELSE last_send[p]
    /\ last_avail_push'[p] =
         IF ev'.type = "decide" /\ ev'.poller = p /\ ev'.decisions[1].rule = "heartbeat"
         THEN ev'.decisions[1].now
         ELSE last_avail_push[p]

C32_SendsApart == [][C32_Step]_vars

\* a source decides a heartbeat after an earlier heartbeat and a later send
C32_Witness ==
  /\ ev.type = "decide"
  /\ ev.poller \in Sources
  /\ ev.decisions[1].rule = "heartbeat"
  /\ ev.decisions[1].last_avail >= StartClock
  /\ ev.decisions[1].last_send > ev.decisions[1].last_avail

\* C33 -- ticket.py: the client of a source is rebuilt once for each time its
\* request counter reaches REBUILD_THRESHOLD: rebuilds of one source do not
\* overlap (at most one instance is inside aclose(), and it holds the
\* rebuild lock), and a rebuild starts only with the counter at or above the
\* threshold, not after an earlier rebuild has answered the crossing and
\* reset it.
C33_Step ==
  \A p \in Sources :
    /\ Cardinality({i \in Instances : task'[p][i].pc = "closing"}) <= 1
    /\ (\E i \in Instances : task'[p][i].pc = "closing") <=> rebuild_lock'[p]
    /\ \A i \in Instances :
         (task[p][i].pc # "closing" /\ task'[p][i].pc = "closing") =>
           req_count[p] >= REBUILD_THRESHOLD

C33_OneRebuildPerCrossing == [][C33_Step]_vars
====
